---- MODULE Spec2Model ----
(***************************************************************************)
(* Model of src/rust/src/soroban_proto_any.rs (stellar-core's bridge to    *)
(* the soroban host): the guarded host-function invocation                 *)
(* (invoke_host_function / invoke_host_function_or_maybe_panic) and the    *)
(* ledger-effect extraction (extract_ledger_effects).                      *)
(*                                                                         *)
(* Conventions.  Option<T> is a sequence of length <= 1 (None == <<>>).    *)
(* Result<T, E> is a record [ok |-> TRUE, v |-> _] or                      *)
(* [ok |-> FALSE, e |-> _].  A byte buffer (RustBuf, Vec<u8>) is a         *)
(* sequence of naturals: one element per XDR 32-bit word, and one element  *)
(* per byte of an opaque hash.                                             *)
(***************************************************************************)
EXTENDS Integers, Sequences, FiniteSets, TLC

\* ------------------------------------------------------------------ bounds

\* Longest change list handed to extract_ledger_effects on its own.
MaxChanges == 2

\* Largest live-until ledger of a TTL change (old and new range over 0..MaxLedger).
MaxLedger == 1

\* Module-cache handles that can exist: the first one and its shallow clones.
MaxHandles == 3

\* Module-cache operations started in one behaviour.
MaxOps == 4

\* Compiles made by the thread that compiles beside an invoking thread.
MaxSideCompiles == 2

\* Width in bits of the integers that stand for u64 (AtomicU64, the limits of
\* a Budget): arithmetic on them is modulo 2^CounterBits.
CounterBits == 3

\* Longest encoded transaction envelope, in 4-byte words.
MaxXdrLen == 5

\* Largest depth limit handed to can_parse_transaction.
MaxDepth == 6

\* Width of the i64 of the fee computations, scaled down.
FeeBits == 4

\* Last ledger of a rent change.
MaxTtl == 2

\* ------------------------------------------------------- program constants

\* [u8; 32]: the length a TTL key hash must have.
HashLen == 32

\* MARSHALLING_STACK_LIMIT.
MARSHALLING_STACK_LIMIT == 1000

\* The length limit of non_metered_xdr_to_vec: 5 * 1024 * 1024 bytes.
XdrWriteLenLimit == 5 * 1024 * 1024

\* last_modified_ledger_seq of a synthesized TTL entry.
TtlLastModifiedLedgerSeq == 0

\* XDR discriminant of LedgerEntryData::Ttl (LedgerEntryType TTL).
LedgerEntryTypeTtl == 9

\* XDR discriminant of LedgerEntryData::ContractData, the entries the engine encodes.
LedgerEntryTypeContractData == 6

\* The protocol version from which a Contract-typed InternalError is not internal.
ContractInternalErrorProtocol == 22

\* ------------------------------------------------------------ basic values

None == << >>

Some(x) == << x >>

Ok(v) == [ok |-> TRUE, v |-> v]

Err(e) == [ok |-> FALSE, e |-> e]

\* A HostError: an ScError type and code.
HostError(type, code) == [type |-> type, code |-> code]

\* ------------------------------------------------- XDR of a ledger entry

\* Bytes an encoded buffer takes: 4 per word, 1 per hash byte. A buffer that
\* holds a hash has its HashLen bytes at elements 3..(2 + HashLen).
XdrByteLen(words, hash_bytes) == 4 * words + hash_bytes

\* The LedgerEntry built for a TTL change, as a structure.
TtlLedgerEntry(hash_bytes, new_live_until_ledger) ==
    [ last_modified_ledger_seq |-> TtlLastModifiedLedgerSeq,
      key_hash                 |-> hash_bytes,
      live_until_ledger_seq    |-> new_live_until_ledger ]

\* WriteXdr of that LedgerEntry: last_modified_ledger_seq, the data
\* discriminant, the key hash, live_until_ledger_seq, the ext discriminant (V0).
WriteXdrTtlEntry(le) ==
    << le.last_modified_ledger_seq, LedgerEntryTypeTtl >>
        \o le.key_hash
        \o << le.live_until_ledger_seq, 0 >>

\* non_metered_xdr_to_rust_buf on a TTL LedgerEntry: the write is limited to
\* XdrWriteLenLimit bytes (and MARSHALLING_STACK_LIMIT levels; a LedgerEntry
\* nests 3 deep); a failure maps to (Value, InvalidInput).
non_metered_xdr_to_rust_buf(le) ==
    IF XdrByteLen(4, Len(le.key_hash)) <= XdrWriteLenLimit /\ 3 <= MARSHALLING_STACK_LIMIT
    THEN Ok(WriteXdrTtlEntry(le))
    ELSE Err(HostError("Value", "InvalidInput"))

\* The engine's encoding of the i-th entry's new value (a ContractData entry
\* whose payload is i).
EncodedEntry(i) == << i, LedgerEntryTypeContractData, i, 0 >>

\* Reading a buffer of the effect list back.
IsTtlRecord(buf) == Len(buf) >= 2 /\ buf[2] = LedgerEntryTypeTtl

TtlRecordKeyHash(buf) == SubSeq(buf, 3, Len(buf) - 2)

TtlRecordLiveUntil(buf) == buf[Len(buf) - 1]

TtlRecordLastModified(buf) == buf[1]

\* ------------------------------------------------ extract_ledger_effects

\* `!change.read_only` and `Some(encoded_new_value)`: the entry emits its value.
EmitsValue_ignoring_read_only(change) == change.encoded_new_value # None

EmitsValue(change) == ~change.read_only /\ change.encoded_new_value # None

\* `ttl_change.new_live_until_ledger > ttl_change.old_live_until_ledger`.
TtlIncreased_or_equal(ttl_change) ==
    ttl_change.new_live_until_ledger >= ttl_change.old_live_until_ledger

TtlIncreased(ttl_change) ==
    ttl_change.new_live_until_ledger > ttl_change.old_live_until_ledger

\* `key_hash.try_into()` to [u8; 32], mapped to (Value, InternalError).
KeyHashTryInto(key_hash) ==
    IF Len(key_hash) = HashLen
    THEN Ok(key_hash)
    ELSE Err(HostError("Value", "InternalError"))

\* The two pushes of one loop iteration: the value first, then the TTL record.
PushRecords_ttl_first(modified_entries, value_part, ttl_part) ==
    modified_entries \o ttl_part \o value_part

PushRecords(modified_entries, value_part, ttl_part) ==
    modified_entries \o value_part \o ttl_part

\* The TTL entry built with the old expiration instead of the new one.
BuildTtlEntry_old_expiration(hash_bytes, ttl_change) ==
    TtlLedgerEntry(hash_bytes, ttl_change.old_live_until_ledger)

BuildTtlEntry(hash_bytes, ttl_change) ==
    TtlLedgerEntry(hash_bytes, ttl_change.new_live_until_ledger)

\* One iteration of the loop over entry_changes: Ok(the list after the
\* iteration) or the error the `?` returns.
ExtractOne(modified_entries, change) ==
    LET value_part == IF EmitsValue(change)
                      THEN << change.encoded_new_value[1] >>
                      ELSE << >>
    IN  IF change.ttl_change # None /\ TtlIncreased(change.ttl_change[1])
        THEN LET ttl_change == change.ttl_change[1]
                 hash_bytes == KeyHashTryInto(ttl_change.key_hash)
             IN  IF ~hash_bytes.ok
                 THEN Err(hash_bytes.e)
                 ELSE LET encoded == non_metered_xdr_to_rust_buf(
                                         BuildTtlEntry(hash_bytes.v, ttl_change))
                      IN  IF ~encoded.ok
                          THEN Err(HostError("Value", "InternalError"))
                          ELSE Ok(PushRecords(modified_entries, value_part, << encoded.v >>))
        ELSE Ok(PushRecords(modified_entries, value_part, << >>))

RECURSIVE ExtractLoop(_, _)
ExtractLoop(entry_changes, modified_entries) ==
    IF entry_changes = << >>
    THEN Ok(modified_entries)
    ELSE LET step == ExtractOne(modified_entries, Head(entry_changes))
         IN  IF step.ok THEN ExtractLoop(Tail(entry_changes), step.v) ELSE step

extract_ledger_effects(entry_changes) == ExtractLoop(entry_changes, << >>)

\* ------------------------------------------------- inputs: change lists

\* A 32-byte key hash, and one of the wrong length, for the i-th entry.
GoodHash(i) == [k \in 1..HashLen |-> i]

ShortHash(i) == [k \in 1..(HashLen - 1) |-> i]

TtlChanges(i) ==
    { [ key_hash |-> h, old_live_until_ledger |-> o, new_live_until_ledger |-> n ] :
        h \in {GoodHash(i), ShortHash(i)}, o \in 0..MaxLedger, n \in 0..MaxLedger }

\* The LedgerEntryChange values the i-th entry of a list can take.
EntryChanges(i) ==
    [ read_only         : BOOLEAN,
      encoded_new_value : {None, Some(EncodedEntry(i))},
      ttl_change        : {None} \cup { Some(t) : t \in TtlChanges(i) } ]

RECURSIVE ChangeListsOfLen(_)
ChangeListsOfLen(n) ==
    IF n = 0
    THEN { << >> }
    ELSE { Append(l, c) : l \in ChangeListsOfLen(n - 1), c \in EntryChanges(n) }

\* ------------------------------------------------ decoding configuration

\* ReadXdr of ContractCostParams from a buffer whose reader is limited to the
\* buffer's own length: a count n, then n entries of (ext, const_term,
\* linear_term). Ok(the entries) when the buffer holds them all.
ReadXdrContractCostParams(data) ==
    IF Len(data) >= 1 /\ data[1] >= 0 /\ Len(data) >= 1 + 3 * data[1]
    THEN Ok([ i \in 1..data[1] |->
                [ const_term  |-> data[3 * i],
                  linear_term |-> data[3 * i + 1] ] ])
    ELSE Err("xdr")

\* non_metered_xdr_from_cxx_buf::<ContractCostParams>: any decoding error
\* becomes (Value, InternalError).
non_metered_xdr_from_cxx_buf_always_ok(buf) ==
    Ok(<< [ const_term |-> 0, linear_term |-> 0 ] >>)

non_metered_xdr_from_cxx_buf(buf) ==
    LET r == ReadXdrContractCostParams(buf)
    IN  IF r.ok THEN r ELSE Err(HostError("Value", "InternalError"))

\* A Budget that holds nothing consumed yet.
FreshBudget_not_zeroed(cpu_limit, mem_limit) ==
    [ live |-> TRUE, cpu_limit |-> cpu_limit, mem_limit |-> mem_limit,
      cpu_insns |-> 1, mem_bytes |-> 1, vm_cpu |-> 0, vm_time |-> 0 ]

FreshBudget(cpu_limit, mem_limit) ==
    [ live |-> TRUE, cpu_limit |-> cpu_limit, mem_limit |-> mem_limit,
      cpu_insns |-> 0, mem_bytes |-> 0, vm_cpu |-> 0, vm_time |-> 0 ]

\* No Budget: before construction and after the call dropped it.
NoBudget == [ live |-> FALSE ]

\* Budget::try_from_configs: a cost-parameter table with a negative term is an
\* invalid configuration.
ValidCostParams(params) ==
    \A i \in 1..Len(params) : params[i].const_term >= 0 /\ params[i].linear_term >= 0

Budget_try_from_configs(cpu_limit, mem_limit, cpu_cost_params, mem_cost_params) ==
    IF ValidCostParams(cpu_cost_params) /\ ValidCostParams(mem_cost_params)
    THEN Ok(FreshBudget(cpu_limit, mem_limit))
    ELSE Err(HostError("Context", "InvalidInput"))

\* The error of a Budget getter (get_cpu_insns_consumed, get_mem_bytes_consumed,
\* get_tracker, get_time) that returns Err.
BudgetReadError == HostError("Context", "InternalError")

\* u64::MAX, scaled down to CounterBits bits.
U64_MAX == 2 ^ CounterBits - 1

\* u64::saturating_sub.
saturating_sub_wrapping(a, b) == (a - b) % (U64_MAX + 1)

saturating_sub(a, b) == IF a >= b THEN a - b ELSE 0

\* TryFrom<&CxxLedgerInfo> for LedgerInfo: the network ID must be 32 bytes.
LedgerInfoTryFrom_unchecked(c) == Ok(c)

LedgerInfoTryFrom(c) ==
    IF Len(c.network_id) = HashLen
    THEN Ok(c)
    ELSE Err([ kind |-> "General", msg |-> << "network ID has wrong size" >> ])

\* A HostError boxed into the call's error (`?` into Box<dyn Error>).
BoxHost(e) == [ kind |-> "Host", error |-> e ]

\* ------------------------------------------------------------- rent fee

Max_taking_least(a, b) == IF a >= b THEN b ELSE a

Max(a, b) == IF a >= b THEN a ELSE b

\* e2e_invoke::extract_rent_changes: one rent change per entry that has a TTL
\* change and a new value and whose TTL was extended.
RECURSIVE extract_rent_changes(_)
extract_rent_changes(ledger_changes) ==
    IF ledger_changes = << >>
    THEN << >>
    ELSE LET c == Head(ledger_changes)
             rest == extract_rent_changes(Tail(ledger_changes))
         IN  IF /\ c.ttl_change # None
                /\ c.encoded_new_value # None
                /\ c.ttl_change[1].new_live_until_ledger > c.ttl_change[1].old_live_until_ledger
             THEN << [ new_size_bytes        |-> 4 * Len(c.encoded_new_value[1]),
                       old_live_until_ledger |-> c.ttl_change[1].old_live_until_ledger,
                       new_live_until_ledger |-> c.ttl_change[1].new_live_until_ledger ] >>
                  \o rest
             ELSE rest

\* fees::compute_rent_fee: per extended entry, its size times the ledgers paid
\* for times the rent rate, plus the write fee of its TTL entry.
RECURSIVE host_compute_rent_fee(_, _, _)
host_compute_rent_fee(changed_entries, fee_config, current_ledger_seq) ==
    IF changed_entries = << >>
    THEN 0
    ELSE LET e == Head(changed_entries)
             before == Max(current_ledger_seq - 1, e.old_live_until_ledger)
             ledgers == Max(e.new_live_until_ledger - before, 0)
         IN  e.new_size_bytes * ledgers * fee_config.rent_rate
             + (IF e.new_live_until_ledger > e.old_live_until_ledger
                THEN fee_config.fee_per_write_entry ELSE 0)
             + host_compute_rent_fee(Tail(changed_entries), fee_config, current_ledger_seq)

\* ---------------------------------------------------- diagnostic events

\* XDR length in bytes of a diagnostic event: the flag, the event header (ext,
\* contract id, type, body discriminant), the topic count, two words per
\* topic, and the data.
DiagnosticEventXdrLen(e) == 4 * (6 + 2 * Len(e.topics)) + e.data_bytes

\* The XDR discriminants of an ScError: its ScErrorType and its ScErrorCode.
ScErrorWords(error) ==
    << CASE error.type = "Contract" -> 0 [] error.type = "Context" -> 2
         [] error.type = "Value" -> 8,
       CASE error.code = "InvalidInput" -> 2 [] error.code = "ExceededLimit" -> 5
         [] error.code = "InternalError" -> 7 >>

\* The topics of an event, encoded: a symbol as SCV_SYMBOL (15) and the
\* symbol (1 for "log", 2 for "host_fn_failed"), an error as SCV_ERROR (2)
\* and the ScError.
RECURSIVE WriteXdrTopics(_)
WriteXdrTopics(topics) ==
    IF topics = << >>
    THEN << >>
    ELSE LET t == Head(topics)
         IN  (IF "symbol" \in DOMAIN t
              THEN << 15, IF t.symbol = "host_fn_failed" THEN 2 ELSE 1 >>
              ELSE << 2 >> \o ScErrorWords(t.error))
             \o WriteXdrTopics(Tail(topics))

\* non_metered_xdr_to_rust_buf on a DiagnosticEvent.
EncodeDiagnosticEvent(e) ==
    IF DiagnosticEventXdrLen(e) <= XdrWriteLenLimit
    THEN Ok(<< (IF e.in_successful_contract_call THEN 1 ELSE 0), e.id, Len(e.topics) >>
            \o WriteXdrTopics(e.topics) \o << e.data_bytes >>)
    ELSE Err(HostError("Value", "InvalidInput"))

encode_diagnostic_events_keeping_failed(events) ==
    [ i \in 1 .. Len(events) |->
        IF EncodeDiagnosticEvent(events[i]).ok
        THEN EncodeDiagnosticEvent(events[i]).v ELSE << >> ]

\* encode_diagnostic_events: filter_map over the events, an event that does
\* not encode is left out.
RECURSIVE encode_diagnostic_events(_)
encode_diagnostic_events(events) ==
    IF events = << >>
    THEN << >>
    ELSE LET encoded == EncodeDiagnosticEvent(Head(events))
         IN  (IF encoded.ok THEN << encoded.v >> ELSE << >>)
             \o encode_diagnostic_events(Tail(events))

\* ScError::try_from(Error): an error whose type or code is none of the XDR's
\* has no ScError.
ScErrorTryFrom(error) ==
    IF /\ error.type \in { "Contract", "Context", "Value" }
       /\ error.code \in { "InvalidInput", "ExceededLimit", "InternalError" }
    THEN Ok(HostError(error.type, error.code))
    ELSE Err("Invalid")

\* The event pushed on failure when diagnostics are enabled; an error that has
\* no ScError is reported as (Context, InternalError).
HostFnFailedEvent(err) ==
    [ in_successful_contract_call |-> FALSE,
      id         |-> 0,
      topics     |-> << [ symbol |-> "host_fn_failed" ],
                        [ error |-> IF ScErrorTryFrom(err).ok
                                    THEN ScErrorTryFrom(err).v
                                    ELSE HostError("Context", "InternalError") ] >>,
      data_bytes |-> 4 ]

\* ------------------------------------------------ the invocation's output

\* Lines 535-539.
IsInternalError_any_version(protocol_version, err) ==
    err.code = "InternalError"

IsInternalError_split_everywhere(protocol_version, err) ==
    err.code = "InternalError" /\ err.type # "Contract"

IsInternalError(protocol_version, err) ==
    IF protocol_version < ContractInternalErrorProtocol
    THEN err.code = "InternalError"
    ELSE err.code = "InternalError" /\ err.type # "Contract"

\* `.into_iter().map(RustBuf::from).collect()`.
RECURSIVE MapRustBuf(_)
MapRustBuf(bufs) ==
    IF bufs = << >> THEN << >> ELSE << Head(bufs) >> \o MapRustBuf(Tail(bufs))

\* Lines 488-506.
SuccessOutput(m, diagnostic_events, result_value, modified_ledger_entries, encoded_contract_events, rent_fee) ==
    [ success                                |-> TRUE,
      is_internal_error                      |-> FALSE,
      diagnostic_events                      |-> encode_diagnostic_events(diagnostic_events),
      cpu_insns                              |-> m.cpu_insns,
      mem_bytes                              |-> m.mem_bytes,
      time_nsecs                             |-> m.time_nsecs,
      cpu_insns_excluding_vm_instantiation   |-> m.cpu_insns_excluding_vm_instantiation,
      time_nsecs_excluding_vm_instantiation  |-> m.time_nsecs_excluding_vm_instantiation,
      result_value                           |-> result_value,
      modified_ledger_entries                |-> modified_ledger_entries,
      contract_events                        |-> MapRustBuf(encoded_contract_events),
      rent_fee                               |-> rent_fee ]

\* Lines 542-556.
FailureOutput_metrics_left_empty(m, diagnostic_events, is_internal_error) ==
    [ success                                |-> FALSE,
      is_internal_error                      |-> is_internal_error,
      diagnostic_events                      |-> encode_diagnostic_events(diagnostic_events),
      cpu_insns                              |-> 0,
      mem_bytes                              |-> 0,
      time_nsecs                             |-> 0,
      cpu_insns_excluding_vm_instantiation   |-> 0,
      time_nsecs_excluding_vm_instantiation  |-> 0,
      result_value                           |-> << >>,
      modified_ledger_entries                |-> << >>,
      contract_events                        |-> << >>,
      rent_fee                               |-> 0 ]

FailureOutput(m, diagnostic_events, is_internal_error) ==
    [ success                                |-> FALSE,
      is_internal_error                      |-> is_internal_error,
      diagnostic_events                      |-> encode_diagnostic_events(diagnostic_events),
      cpu_insns                              |-> m.cpu_insns,
      mem_bytes                              |-> m.mem_bytes,
      time_nsecs                             |-> m.time_nsecs,
      cpu_insns_excluding_vm_instantiation   |-> m.cpu_insns_excluding_vm_instantiation,
      time_nsecs_excluding_vm_instantiation  |-> m.time_nsecs_excluding_vm_instantiation,
      result_value                           |-> << >>,
      modified_ledger_entries                |-> << >>,
      contract_events                        |-> << >>,
      rent_fee                               |-> 0 ]

\* Lines 342-353: what catch_unwind's Err(payload) becomes.
PanicError_as_host_error(payload) ==
    [ kind |-> "Host", error |-> HostError("Context", "InternalError") ]

PanicError(payload) ==
    IF payload.kind = "String"
    THEN [ kind |-> "General", msg |-> << "contract host panicked: ", payload.s >> ]
    ELSE IF payload.kind = "str"
    THEN [ kind |-> "General", msg |-> << "contract host panicked: ", payload.s >> ]
    ELSE [ kind |-> "General", msg |-> << "contract host panicked" >> ]

\* ------------------------------------------------ inputs: one invocation

\* The instruction limit of a call: the most CPU instructions an engine run
\* consumes.
MaxCpu == 1

\* The longest wall time measured around the engine call.
MaxTime == 1

ProtocolVersions == { ContractInternalErrorProtocol - 1,
                      ContractInternalErrorProtocol,
                      ContractInternalErrorProtocol + 1 }

\* Cost-parameter buffers: a table of one entry, one whose linear term is
\* negative, and one cut short (it announces two entries and holds one).
GoodCostParamsBuf == << 1, 0, 2, 3 >>

NegativeCostParamsBuf == << 1, 0, 2, -3 >>

TruncatedCostParamsBuf == << 2, 0, 2, 3 >>

CostParamBufs == { GoodCostParamsBuf, NegativeCostParamsBuf, TruncatedCostParamsBuf }

RentFeeConfigurations ==
    { [ rent_rate |-> 1, fee_per_write_entry |-> 1 ],
      [ rent_rate |-> 2, fee_per_write_entry |-> 3 ] }

\* CxxLedgerInfo, the fields the call reads.
LedgerInfos ==
    [ protocol_version : ProtocolVersions,
      sequence_number  : {1, 2},
      network_id       : { GoodHash(7), ShortHash(7) },
      memory_limit     : { 1 },
      cpu_cost_params  : CostParamBufs,
      mem_cost_params  : CostParamBufs ]

CallInputs ==
    [ enable_diagnostics     : BOOLEAN,
      instruction_limit      : { MaxCpu },
      ledger_info            : LedgerInfos,
      rent_fee_configuration : RentFeeConfigurations ]

\* ----------------------------------------------- the execution engine

\* The typed errors the engine reports.
HostErrors == { HostError(t, c) : t \in {"Contract", "Value"},
                                  c \in {"InternalError", "ExceededLimit"} }

\* Entry changes of an engine result: none; a written entry whose TTL grew; a
\* read-only entry followed by a written one whose TTL grew; a written entry
\* followed by one whose TTL grew under a key hash of the wrong length.
WrittenExtended(i) ==
    [ read_only |-> FALSE, encoded_new_value |-> Some(EncodedEntry(i)),
      ttl_change |-> Some([ key_hash |-> GoodHash(i), old_live_until_ledger |-> 0,
                            new_live_until_ledger |-> MaxLedger + 1 ]) ]

ReadOnlyEntry(i) ==
    [ read_only |-> TRUE, encoded_new_value |-> Some(EncodedEntry(i)), ttl_change |-> None ]

BadHashExtended(i) ==
    [ read_only |-> TRUE, encoded_new_value |-> None,
      ttl_change |-> Some([ key_hash |-> ShortHash(i), old_live_until_ledger |-> 0,
                            new_live_until_ledger |-> MaxLedger + 1 ]) ]

EngineChangeLists ==
    { << >>,
      << WrittenExtended(1) >>,
      << ReadOnlyEntry(1), WrittenExtended(2) >>,
      << WrittenExtended(1), BadHashExtended(2) >> }

EngineContractEvents == { << >>, << << 1 >>, << 2 >> >> }

\* InvokeHostFunctionResult: encoded_invoke_result, ledger_changes and
\* encoded_contract_events. A failed result may still carry changes and events.
EngineResults ==
    { Err(e) : e \in HostErrors }
    \cup { Ok([ encoded_invoke_result   |-> Err(e),
                ledger_changes          |-> << WrittenExtended(1) >>,
                encoded_contract_events |-> << << 1 >>, << 2 >> >> ]) :
             e \in HostErrors }
    \cup { Ok([ encoded_invoke_result   |-> Ok(<< 5 >>),
                ledger_changes          |-> c,
                encoded_contract_events |-> ev ]) :
             c \in EngineChangeLists, ev \in EngineContractEvents }

\* Diagnostic events the engine appends to the accumulator: one that encodes
\* and one too long to encode.
SmallDiagnosticEvent ==
    [ in_successful_contract_call |-> TRUE, id |-> 1,
      topics |-> << [ symbol |-> "log" ] >>, data_bytes |-> 4 ]

HugeDiagnosticEvent ==
    [ in_successful_contract_call |-> TRUE, id |-> 2,
      topics |-> << [ symbol |-> "log" ] >>, data_bytes |-> XdrWriteLenLimit ]

EngineDiagnosticEvents(enable_diagnostics) ==
    IF enable_diagnostics
    THEN { << >>, << SmallDiagnosticEvent >>, << HugeDiagnosticEvent, SmallDiagnosticEvent >> }
    ELSE { << >> }

\* What one engine run does besides its result: the CPU and memory it charges
\* to the Budget (within the Budget's limits), the part tracked for VM
\* instantiation, and the wall time the caller measures around it.
EngineCosts(budget) ==
    [ cpu     : 0..budget.cpu_limit,
      mem     : 0..budget.mem_limit,
      vm_cpu  : 0..MaxCpu,
      vm_time : { 0, MaxTime + 1 },
      time    : 0..MaxTime ]

\* The Budget after the engine charged `cost` to it.
Charge(budget, cost) ==
    [ budget EXCEPT !.cpu_insns = @ + cost.cpu,
                    !.mem_bytes = @ + cost.mem,
                    !.vm_cpu    = @ + cost.vm_cpu,
                    !.vm_time   = @ + cost.vm_time ]

PanicPayloads == { [ kind |-> "String", s |-> "msg" ],
                   [ kind |-> "str", s |-> "msg" ],
                   [ kind |-> "other" ] }

\* ------------------------------------------------------- module cache

Handles == 1..MaxHandles

\* Bytecode handed to compile: two modules that parse and one that does not
\* (a module starts with the magic byte 0). Keys: the content hashes of the
\* modules that can be cached.
Wasms == { << 0, 1 >>, << 0, 2 >>, << 7 >> }

RECURSIVE SumBytes(_)
SumBytes(bytes) == IF bytes = << >> THEN 0 ELSE Head(bytes) + SumBytes(Tail(bytes))

\* The 32-byte content hash under which a module is cached.
ContentHash(wasm) == GoodHash(SumBytes(wasm) % 256)

WasmParses(wasm) == Len(wasm) >= 1 /\ wasm[1] = 0

Keys == { ContentHash(w) : w \in { x \in Wasms : WasmParses(x) } }

\* Memory one compilation charges to its context's Budget: a little, or all
\* that a u64 holds.
ModuleCosts == { 1, U64_MAX }

\* CoreCompilationContext::new: a Budget with both limits u64::MAX and empty
\* cost-parameter tables.
CoreCompilationContext_new_limited_to_zero ==
    Budget_try_from_configs(0, 0, << >>, << >>)

CoreCompilationContext_new ==
    Budget_try_from_configs(U64_MAX, U64_MAX, << >>, << >>)

\* ModuleCache::new: a new, empty store, named by `id`.
ModuleCache_new(id) == Ok(id)

\* ModuleCache::parse_and_cache_module_simple on the store's contents: a module
\* that parses is inserted (or replaced) under its content hash.
StoreInsert_replacing_all(store, key) == { key }

StoreInsert(store, key) == store \cup { key }

parse_and_cache_module_simple(store, wasm) ==
    IF WasmParses(wasm)
    THEN [ res |-> Ok("unit"), store |-> StoreInsert(store, ContentHash(wasm)) ]
    ELSE [ res |-> Err(HostError("WasmVm", "InvalidInput")), store |-> store ]

\* ModuleCache::remove_module: the entry is removed; for an absent key the
\* store may answer Ok or signal an error.
RemoveModuleResults(store, key) ==
    IF key \in store
    THEN { Ok("unit") }
    ELSE { Ok("unit"), Err(HostError("Context", "MissingValue")) }

\* ModuleCache::contains_module.
ModuleCacheContains(store, key) == Ok(key \in store)

\* AtomicU64::fetch_add: the new value of the counter (wrapping).
fetch_add(counter, val) == (counter + val) % (U64_MAX + 1)

\* ProtocolSpecificModuleCache::new, lines 714-721, with `id` naming the store
\* that ModuleCache::new creates.
AbsentHandle == [ present |-> FALSE, module_cache |-> 0, mem_bytes_consumed |-> 0 ]

ProtocolSpecificModuleCache_new(id) ==
    IF ~CoreCompilationContext_new.ok THEN CoreCompilationContext_new
    ELSE IF ~ModuleCache_new(id).ok THEN ModuleCache_new(id)
    ELSE Ok([ present |-> TRUE, module_cache |-> ModuleCache_new(id).v,
              mem_bytes_consumed |-> 0 ])

\* shallow_clone, lines 770-774: a new handle whose module_cache is replaced by
\* a clone of self's, which points to the same store.
shallow_clone_keeping_new_store(self, id) == ProtocolSpecificModuleCache_new(id)

shallow_clone_copying_counter(self, id) == Ok(self)

shallow_clone(self, id) ==
    LET new == ProtocolSpecificModuleCache_new(id)
    IN  IF ~new.ok THEN new
        ELSE Ok([ new.v EXCEPT !.module_cache = self.module_cache ])

\* Line 736: compile returns the result of parse_and_cache_module_simple.
CompileReturn_ignoring_result(res) == Ok("unit")

CompileReturn(res) == IF res.ok THEN Ok("unit") ELSE Err(BoxHost(res.e))

\* The locals of a compile call: no call in progress, and the state after
\* lines 724-729.
NoFrame == [ pc |-> "ready", wasm |-> << >>, ctx |-> NoBudget, res |-> Ok("unit") ]

\* ------------------------------- contract_code_memory_size_for_rent

\* u32::MAX.
U32_MAX == 2 ^ (CounterBits - 1) - 1

\* ReadXdr of a ContractCodeEntry from a buffer limited to its own length: the
\* ext discriminant (0 or 1), the length of the code, then the code.
ReadXdrContractCodeEntry(data) ==
    IF /\ Len(data) >= 2 /\ data[1] \in {0, 1} /\ data[2] >= 0
       /\ Len(data) >= 2 + data[2]
    THEN Ok([ ext |-> data[1], code_len |-> data[2] ])
    ELSE Err("xdr")

\* Encoded entries: no code, one word of code, two words, and one cut short.
CodeEntryBufs == { << 0, 0 >>, << 0, 1, 9 >>, << 1, 2, 9, 9 >>, << 0, 2, 9 >> }

\* wasm_module_memory_cost_wrapper: the memory cost model of the tables the
\* Budget was built from, evaluated on the size of the code; nothing is
\* charged to the Budget.
wasm_module_memory_cost_wrapper(b, mem_cost_params, entry) ==
    IF mem_cost_params = << >>
    THEN Err(HostError("Budget", "InternalError"))
    ELSE LET cost == mem_cost_params[1].const_term
                       + mem_cost_params[1].linear_term * entry.code_len
         IN  Ok(IF cost > U64_MAX THEN U64_MAX ELSE cost)

\* Lines 630-635: the Budget of the computation.
MemorySizeBudget_unlimited(cpu_cost_params, mem_cost_params) ==
    Budget_try_from_configs(U64_MAX, U64_MAX, cpu_cost_params, mem_cost_params)

MemorySizeBudget(cpu_cost_params, mem_cost_params) ==
    Budget_try_from_configs(0, 0, cpu_cost_params, mem_cost_params)

\* Lines 623-639. The result, and the Budget the computation built (None when
\* it returned before building one).
contract_code_memory_size_for_rent(contract_code_entry_xdr, cpu_cost_params, mem_cost_params) ==
    LET entry == ReadXdrContractCodeEntry(contract_code_entry_xdr)
        cpu   == non_metered_xdr_from_cxx_buf(cpu_cost_params)
        mem   == non_metered_xdr_from_cxx_buf(mem_cost_params)
        b     == MemorySizeBudget(cpu.v, mem.v)
        cost  == wasm_module_memory_cost_wrapper(b.v, mem.v, entry.v)
    IN  IF ~entry.ok
        THEN [ ret |-> Err(BoxHost(HostError("Value", "InternalError"))), budget |-> None ]
        ELSE IF ~cpu.ok THEN [ ret |-> Err(BoxHost(cpu.e)), budget |-> None ]
        ELSE IF ~mem.ok THEN [ ret |-> Err(BoxHost(mem.e)), budget |-> None ]
        ELSE IF ~b.ok THEN [ ret |-> Err(BoxHost(b.e)), budget |-> None ]
        ELSE IF ~cost.ok THEN [ ret |-> Err(BoxHost(cost.e)), budget |-> Some(b.v) ]
        ELSE IF cost.v > U32_MAX
        THEN [ ret |-> Err([ kind |-> "TryFromIntError" ]), budget |-> Some(b.v) ]
        ELSE [ ret |-> Ok(cost.v), budget |-> Some(b.v) ]

\* ------------------------------------------------ can_parse_transaction

\* The words of the encoded envelopes: envelope types 0 (TxV0), 2 (Tx) and
\* 5 (fee bump), operation types 0 and 1, and operation counts.
XdrWords == { 0, 1, 2, 5 }

OpTypes == { 0, 1 }

XdrBufs == UNION { [ 1 .. n -> XdrWords ] : n \in 0 .. MaxXdrLen }

\* One level further into the value being read.
Deeper(limits) == [ limits EXCEPT !.depth = @ - 1 ]

\* Reading one word from a Limited reader: the read takes a level of depth
\* while it lasts and 4 bytes of the length limit.
ReadWord(data, pos, limits) ==
    IF limits.depth = 0 THEN Err("DepthLimitExceeded")
    ELSE IF pos > limits.len THEN Err("LengthLimitExceeded")
    ELSE IF pos > Len(data) THEN Err("Io")
    ELSE Ok(data[pos])

\* Reading n operations from pos on; the position after them.
RECURSIVE ReadOperations(_, _, _, _)
ReadOperations(data, pos, n, limits) ==
    IF n = 0 THEN Ok(pos)
    ELSE IF limits.depth = 0 THEN Err("DepthLimitExceeded")
    ELSE LET w == ReadWord(data, pos, Deeper(limits))
         IN  IF ~w.ok THEN w
             ELSE IF w.v \notin OpTypes THEN Err("Invalid")
             ELSE ReadOperations(data, pos + 1, n - 1, limits)

\* A transaction: the number of its operations, then the operations.
ReadTransaction(data, pos, limits) ==
    IF limits.depth = 0 THEN Err("DepthLimitExceeded")
    ELSE LET n == ReadWord(data, pos, Deeper(limits))
         IN  IF ~n.ok THEN n
             ELSE ReadOperations(data, pos + 1, n.v, Deeper(limits))

\* A fee bump: the fee source, then the inner transaction, a union whose
\* only arm is envelope type 2.
ReadFeeBumpTransaction(data, pos, limits) ==
    IF limits.depth = 0 THEN Err("DepthLimitExceeded")
    ELSE LET src == ReadWord(data, pos, Deeper(limits))
             t   == ReadWord(data, pos + 1, Deeper(Deeper(limits)))
         IN  IF ~src.ok THEN src
             ELSE IF Deeper(limits).depth = 0 THEN Err("DepthLimitExceeded")
             ELSE IF ~t.ok THEN t
             ELSE IF t.v # 2 THEN Err("Invalid")
             ELSE ReadTransaction(data, pos + 2, Deeper(Deeper(limits)))

\* TransactionEnvelope::read_xdr: the envelope type, then the arm it selects.
\* The position after the envelope; what follows it is not read.
ReadTransactionEnvelope(data, limits) ==
    IF limits.depth = 0 THEN Err("DepthLimitExceeded")
    ELSE LET t == ReadWord(data, 1, Deeper(limits))
         IN  IF ~t.ok THEN t
             ELSE IF t.v \in { 0, 2 } THEN ReadTransaction(data, 2, Deeper(limits))
             ELSE IF t.v = 5 THEN ReadFeeBumpTransaction(data, 2, Deeper(limits))
             ELSE Err("Invalid")

\* Transaction envelopes as values, their encoding, and the depth of the
\* deepest word of the encoding.
Envelopes ==
    [ type : { 0, 2, 5 }, fee_source : XdrWords,
      ops : UNION { [ 1 .. n -> OpTypes ] : n \in 0 .. MaxXdrLen } ]

WriteTransactionEnvelope(env) ==
    IF env.type = 5
    THEN << 5, env.fee_source, 2, Len(env.ops) >> \o env.ops
    ELSE << env.type, Len(env.ops) >> \o env.ops

EnvelopeDepth(env) ==
    (IF env.type = 5 THEN 5 ELSE 3) + (IF env.ops = << >> THEN 0 ELSE 1)

\* Lines 641-650.
can_parse_transaction_at_stack_limit(xdr, depth_limit) ==
    ReadTransactionEnvelope(xdr, [ depth |-> MARSHALLING_STACK_LIMIT, len |-> Len(xdr) ]).ok

can_parse_transaction(xdr, depth_limit) ==
    ReadTransactionEnvelope(xdr, [ depth |-> depth_limit, len |-> Len(xdr) ]).ok

\* ------------------------------------- compute_transaction_resource_fee

I64_MAX == 2 ^ (FeeBits - 1) - 1

I64_MIN == - I64_MAX - 1

Saturate(x) == IF x > I64_MAX THEN I64_MAX ELSE IF x < I64_MIN THEN I64_MIN ELSE x

saturating_add(a, b) == Saturate(a + b)

saturating_mul_wrapping(a, b) ==
    ((a * b - I64_MIN) % (2 * (I64_MAX + 1))) + I64_MIN

saturating_mul(a, b) == Saturate(a * b)

\* The fee of a resource charged per started increment of 2 units.
compute_fee_per_increment(resource_value, fee_rate) ==
    - ((- saturating_mul(resource_value, fee_rate)) \div 2)

\* fees::compute_transaction_resource_fee: instructions and written entries
\* are not refundable, the events are.
host_compute_transaction_resource_fee(tx_resources, fee_config) ==
    << saturating_add(
           compute_fee_per_increment(tx_resources.instructions,
                                     fee_config.fee_per_instruction_increment),
           saturating_mul(tx_resources.write_entries, fee_config.fee_per_write_entry)),
       compute_fee_per_increment(tx_resources.contract_events_size_bytes,
                                 fee_config.fee_per_contract_event_1kb) >>

\* convert_transaction_resources and convert_fee_configuration copy the
\* fields; the resources are u32 and widened to i64 where they are used.
convert_transaction_resources(value) ==
    [ instructions               |-> value.instructions,
      write_entries              |-> value.write_entries,
      contract_events_size_bytes |-> value.contract_events_size_bytes ]

convert_fee_configuration(value) ==
    [ fee_per_instruction_increment |-> value.fee_per_instruction_increment,
      fee_per_write_entry           |-> value.fee_per_write_entry,
      fee_per_contract_event_1kb    |-> value.fee_per_contract_event_1kb ]

\* Lines 591-601.
compute_transaction_resource_fee(tx_resources, fee_config) ==
    LET p == host_compute_transaction_resource_fee(
                 convert_transaction_resources(tx_resources),
                 convert_fee_configuration(fee_config))
    IN  [ non_refundable_fee |-> p[1], refundable_fee |-> p[2] ]

CxxTransactionResources ==
    [ instructions : 0 .. 2, write_entries : 0 .. 2, contract_events_size_bytes : 0 .. 2 ]

CxxFeeConfigurations ==
    [ fee_per_instruction_increment : { -1, 0, 1, I64_MAX },
      fee_per_write_entry : { -1, 0, 1, I64_MAX },
      fee_per_contract_event_1kb : { -1, 0, 1, I64_MAX } ]

\* ------------------------------------------------------ compute_rent_fee

\* Lines 608-613: every rent change and the configuration are converted field
\* by field and handed to the host's rent fee.
RECURSIVE convert_rent_changes(_)
convert_rent_changes(changed_entries) ==
    IF changed_entries = << >>
    THEN << >>
    ELSE << [ new_size_bytes        |-> Head(changed_entries).new_size_bytes,
              old_live_until_ledger |-> Head(changed_entries).old_live_until_ledger,
              new_live_until_ledger |-> Head(changed_entries).new_live_until_ledger ] >>
         \o convert_rent_changes(Tail(changed_entries))

compute_rent_fee(changed_entries, fee_config, current_ledger_seq) ==
    host_compute_rent_fee(convert_rent_changes(changed_entries),
                          [ rent_rate           |-> fee_config.rent_rate,
                            fee_per_write_entry |-> fee_config.fee_per_write_entry ],
                          current_ledger_seq)

CxxLedgerEntryRentChanges ==
    [ new_size_bytes : { 0, 4 }, old_live_until_ledger : 0 .. MaxTtl,
      new_live_until_ledger : 0 .. MaxTtl ]

CxxRentChangeLists == UNION { [ 1 .. n -> CxxLedgerEntryRentChanges ] : n \in 0 .. 2 }

\* The i64 fields of CxxRentFeeConfiguration are not validated.
CxxRentFeeConfigurations ==
    { [ rent_rate |-> 0, fee_per_write_entry |-> 0 ],
      [ rent_rate |-> 1, fee_per_write_entry |-> 1 ],
      [ rent_rate |-> 2, fee_per_write_entry |-> 3 ],
      [ rent_rate |-> -1, fee_per_write_entry |-> 0 ] }

\* --------------------------------------------------------------- state

VARIABLES
    pc,                 \* where the calling thread is in invoke_host_function
    inp,                \* the arguments of the call in progress (or last made)
    budget,             \* the call's Budget (NoBudget outside a call)
    diagnostic_events,  \* the call's diagnostic-event accumulator
    res,                \* None, or Some(the engine's result)
    time_nsecs,         \* wall time measured around the engine call
    metrics,            \* the locals read from the Budget at lines 458-466
    ret,                \* None, or Some(what invoke_host_function returned)
    engine_calls,       \* times the engine was invoked in this call
    engine_cost,        \* what the engine charged in this call
    engine_events,      \* the diagnostic events the engine appended in this call
    panic_at,           \* "none", or the step of this call that panicked
    abort_at,           \* "none", or the step of this call whose `?` returned
    faulted,            \* an earlier call on this thread caught a panic
    ex_pc,              \* extract_ledger_effects on its own: "off", "input", "done"
    ex_changes,         \* its argument
    ex_result,          \* its result
    handle,             \* the ProtocolSpecificModuleCache handles, by index
    frame,              \* per handle, the locals of the compile call on it
    stores,             \* the contents of each ModuleCache store, by store id
    last,               \* the module-cache step taken last, and what it saw
    hist,               \* history of the module-cache operations
    fn_call,            \* the standalone function applied, with its arguments
    fn_result           \* and what it returned

inv_vars == << pc, inp, budget, diagnostic_events, res, time_nsecs, metrics, ret,
               engine_calls, engine_cost, engine_events, panic_at, abort_at, faulted >>

ex_vars == << ex_pc, ex_changes, ex_result >>

cache_vars == << handle, frame, stores, last, hist >>

fn_vars == << fn_call, fn_result >>

side_vars == << handle, frame, stores, last, hist, fn_call, fn_result >>

vars == << pc, inp, budget, diagnostic_events, res, time_nsecs, metrics, ret,
           engine_calls, engine_cost, engine_events, panic_at, abort_at, faulted,
           ex_pc, ex_changes, ex_result,
           handle, frame, stores, last, hist, fn_call, fn_result >>

NoMetrics == [ cpu_insns |-> 0, mem_bytes |-> 0, time_nsecs |-> 0,
               cpu_insns_excluding_vm_instantiation |-> 0,
               time_nsecs_excluding_vm_instantiation |-> 0 ]

NoCost == [ cpu |-> 0, mem |-> 0, vm_cpu |-> 0, vm_time |-> 0, time |-> 0 ]

\* ------------------------------------------------- module cache, at rest

NoStep == [ op |-> "none", h |-> 0, key |-> << >>, new |-> 0, ret |-> Ok("unit"),
            before |-> {}, mem_before |-> 0, consumed |-> 0, alone |-> TRUE ]

\* One handle made by ProtocolSpecificModuleCache::new; nothing compiled.
CacheIdle ==
    /\ handle = [ h \in Handles |->
                    IF h = 1 THEN ProtocolSpecificModuleCache_new(1).v ELSE AbsentHandle ]
    /\ frame = [ h \in Handles |-> NoFrame ]
    /\ stores = [ id \in Handles |-> {} ]
    /\ last = NoStep
    /\ hist = [ ops         |-> 0,
                origin      |-> [ h \in Handles |-> 0 ],
                consumed    |-> [ h \in Handles |-> 0 ],
                uncounted   |-> [ h \in Handles |-> 0 ],
                compiled_ok |-> {},
                removed     |-> FALSE,
                overlapped  |-> FALSE ]

NoCall == [ fn |-> "none" ]

FnIdle ==
    /\ fn_call = NoCall
    /\ fn_result = None

SideIdle == CacheIdle /\ FnIdle

\* ------------------------------------------- extract_ledger_effects alone

ExtractIdle ==
    /\ ex_pc = "off"
    /\ ex_changes = << >>
    /\ ex_result = Ok(<< >>)

\* The arguments held while no call is in progress.
DefaultInput ==
    [ enable_diagnostics     |-> FALSE,
      instruction_limit      |-> MaxCpu,
      ledger_info            |->
          [ protocol_version |-> ContractInternalErrorProtocol,
            sequence_number  |-> 1,
            network_id       |-> GoodHash(7),
            memory_limit     |-> 1,
            cpu_cost_params  |-> GoodCostParamsBuf,
            mem_cost_params  |-> GoodCostParamsBuf ],
      rent_fee_configuration |-> [ rent_rate |-> 1, fee_per_write_entry |-> 1 ] ]

InvokeIdle ==
    /\ pc = "idle"
    /\ inp = DefaultInput
    /\ budget = NoBudget
    /\ diagnostic_events = << >>
    /\ res = None
    /\ time_nsecs = 0
    /\ metrics = NoMetrics
    /\ ret = None
    /\ engine_calls = 0
    /\ engine_cost = NoCost
    /\ engine_events = << >>
    /\ panic_at = "none"
    /\ abort_at = "none"
    /\ faulted = FALSE

InitExtract ==
    /\ InvokeIdle
    /\ SideIdle
    /\ ex_pc = "input"
    /\ \E n \in 0 .. MaxChanges : ex_changes \in ChangeListsOfLen(n)
    /\ ex_result = Ok(<< >>)

ExtractCall ==
    /\ ex_pc = "input"
    /\ ex_result' = extract_ledger_effects(ex_changes)
    /\ ex_pc' = "done"
    /\ UNCHANGED << ex_changes, inv_vars, side_vars >>

NextExtract == ExtractCall

SpecExtract == InitExtract /\ [][NextExtract]_vars

\* ------------------------------------------------- invoke_host_function

Init == InvokeIdle /\ ExtractIdle /\ SideIdle

\* The locals of the guarded call are dropped when it returns or unwinds.
DropLocals_keeping_budget ==
    /\ UNCHANGED << budget, diagnostic_events >>
    /\ metrics' = NoMetrics
    /\ time_nsecs' = 0

DropLocals ==
    /\ budget' = NoBudget
    /\ diagnostic_events' = << >>
    /\ metrics' = NoMetrics
    /\ time_nsecs' = 0

\* Lines 310-341: the caller calls invoke_host_function, which enters the
\* closure under catch_unwind.
Call ==
    /\ pc = "idle"
    /\ \E i \in CallInputs : inp' = i
    /\ pc' = "budget"
    /\ UNCHANGED << budget, diagnostic_events, res, time_nsecs, metrics, ret,
                    engine_calls, engine_cost, engine_events, panic_at, abort_at, faulted, ex_vars, side_vars >>

\* What lines 412-420 evaluate to: the two tables decoded in order, then the
\* Budget built from the limits and the tables.
ConstructBudget_kept_from_earlier_call(i) ==
    Ok([ FreshBudget(i.instruction_limit, i.ledger_info.memory_limit)
           EXCEPT !.cpu_insns = 1, !.mem_bytes = 1 ])

ConstructBudget(i) ==
    LET cpu == non_metered_xdr_from_cxx_buf(i.ledger_info.cpu_cost_params)
        mem == non_metered_xdr_from_cxx_buf(i.ledger_info.mem_cost_params)
    IN  IF ~cpu.ok THEN cpu
        ELSE IF ~mem.ok THEN mem
        ELSE Budget_try_from_configs(i.instruction_limit, i.ledger_info.memory_limit,
                                     cpu.v, mem.v)

\* Lines 412-421, no error: the Budget and the empty accumulator.
BudgetBuilt ==
    /\ pc = "budget"
    /\ ConstructBudget(inp).ok
    /\ budget' = ConstructBudget(inp).v
    /\ diagnostic_events' = << >>
    /\ pc' = "invoke"
    /\ UNCHANGED << inp, res, time_nsecs, metrics, ret, engine_calls, engine_cost, engine_events,
                    panic_at, abort_at, faulted, ex_vars, side_vars >>

\* Lines 412-420, a `?` returns the error.
BudgetAbort ==
    /\ pc = "budget"
    /\ ~ConstructBudget(inp).ok
    /\ ret' = Some(Err(BoxHost(ConstructBudget(inp).e)))
    /\ abort_at' = "budget"
    /\ pc' = "returned"
    /\ DropLocals
    /\ UNCHANGED << inp, res, engine_calls, engine_cost, engine_events,
                    panic_at, faulted, ex_vars, side_vars >>

\* Line 441: `ledger_info.try_into()?`, evaluated with the other arguments
\* before the engine is called.
NetworkIdAbort ==
    /\ pc = "invoke"
    /\ ~LedgerInfoTryFrom(inp.ledger_info).ok
    /\ ret' = Some(Err(LedgerInfoTryFrom(inp.ledger_info).e))
    /\ abort_at' = "network_id"
    /\ pc' = "returned"
    /\ DropLocals
    /\ UNCHANGED << inp, res, engine_calls, engine_cost, engine_events,
                    panic_at, faulted, ex_vars, side_vars >>

\* Lines 431-448: the arguments are ready and the engine is entered; the host
\* it builds holds the Budget.
EngineEnter ==
    /\ pc = "invoke"
    /\ LedgerInfoTryFrom(inp.ledger_info).ok
    /\ engine_calls' = engine_calls + 1
    /\ pc' = "in_engine"
    /\ UNCHANGED << inp, budget, diagnostic_events, res, time_nsecs, metrics, ret,
                    engine_cost, engine_events, panic_at, abort_at, faulted, ex_vars, side_vars >>

\* Lines 433-452: the engine returns a result, having charged the Budget and
\* appended its diagnostic events; the wall time is taken.
EngineReturn ==
    /\ pc = "in_engine"
    /\ \E r \in EngineResults, cost \in EngineCosts(budget),
          d \in EngineDiagnosticEvents(inp.enable_diagnostics) :
            /\ res' = Some(r)
            /\ engine_cost' = cost
            /\ engine_events' = d
            /\ budget' = Charge(budget, cost)
            /\ diagnostic_events' = diagnostic_events \o d
            /\ time_nsecs' = cost.time
    /\ pc' = "metrics"
    /\ UNCHANGED << inp, metrics, ret, engine_calls, panic_at, abort_at, faulted, ex_vars, side_vars >>

\* Lines 458-466, every getter returns Ok: the metrics are read from the
\* Budget, the parts tracked for VM instantiation are subtracted.
ReadMetrics ==
    /\ pc = "metrics"
    /\ metrics' =
          [ cpu_insns  |-> budget.cpu_insns,
            mem_bytes  |-> budget.mem_bytes,
            time_nsecs |-> time_nsecs,
            cpu_insns_excluding_vm_instantiation |->
                saturating_sub(budget.cpu_insns, budget.vm_cpu),
            time_nsecs_excluding_vm_instantiation |->
                saturating_sub(time_nsecs, budget.vm_time) ]
    /\ pc' = "match"
    /\ UNCHANGED << inp, budget, diagnostic_events, res, time_nsecs, ret, engine_calls,
                    engine_cost, engine_events, panic_at, abort_at, faulted, ex_vars, side_vars >>

\* Lines 458-466, a getter returns Err and its `?` returns the error.
MetricsAbort ==
    /\ pc = "metrics"
    /\ ret' = Some(Err(BoxHost(BudgetReadError)))
    /\ abort_at' = "metrics"
    /\ pc' = "returned"
    /\ DropLocals
    /\ UNCHANGED << inp, res, engine_calls, engine_cost, engine_events, panic_at, faulted, ex_vars, side_vars >>

\* The error of a failed engine result: the outer Err, or the Err of
\* encoded_invoke_result (lines 478-511).
ResultIsSuccess(r) == r.ok /\ r.v.encoded_invoke_result.ok

ResultError(r) == IF r.ok THEN r.v.encoded_invoke_result.e ELSE r.e

\* The rent fee of line 482.
RentFeeOf_ignoring_inputs(ledger_changes, i) == 0

RentFeeOf(ledger_changes, i) ==
    host_compute_rent_fee(extract_rent_changes(ledger_changes),
                          i.rent_fee_configuration,
                          i.ledger_info.sequence_number)

\* Lines 479-507: the engine succeeded and the effects were extracted.
ReturnSuccess ==
    /\ pc = "match"
    /\ ResultIsSuccess(res[1])
    /\ extract_ledger_effects(res[1].v.ledger_changes).ok
    /\ ret' = Some(Ok(SuccessOutput(
                  metrics, diagnostic_events,
                  res[1].v.encoded_invoke_result.v,
                  extract_ledger_effects(res[1].v.ledger_changes).v,
                  res[1].v.encoded_contract_events,
                  RentFeeOf(res[1].v.ledger_changes, inp))))
    /\ pc' = "returned"
    /\ DropLocals
    /\ UNCHANGED << inp, res, engine_calls, engine_cost, engine_events, panic_at, abort_at, faulted, ex_vars, side_vars >>

\* Line 487: the engine succeeded and `extract_ledger_effects(..)?` returns the
\* extraction's error.
ReturnExtractError ==
    /\ pc = "match"
    /\ ResultIsSuccess(res[1])
    /\ ~extract_ledger_effects(res[1].v.ledger_changes).ok
    /\ ret' = Some(Err(BoxHost(extract_ledger_effects(res[1].v.ledger_changes).e)))
    /\ abort_at' = "effects"
    /\ pc' = "returned"
    /\ DropLocals
    /\ UNCHANGED << inp, res, engine_calls, engine_cost, engine_events, panic_at, faulted, ex_vars, side_vars >>

\* The accumulator after lines 512-534.
WithFailureEvent_pushed_first(events, enable_diagnostics, err) ==
    IF enable_diagnostics THEN << HostFnFailedEvent(err) >> \o events ELSE events

WithFailureEvent(events, enable_diagnostics, err) ==
    IF enable_diagnostics THEN Append(events, HostFnFailedEvent(err)) ELSE events

\* Lines 508-556: the engine reported an error.
ReturnFailure ==
    /\ pc = "match"
    /\ ~ResultIsSuccess(res[1])
    /\ LET err == ResultError(res[1])
       IN  ret' = Some(Ok(FailureOutput(
                      metrics,
                      WithFailureEvent(diagnostic_events, inp.enable_diagnostics, err),
                      IsInternalError(inp.ledger_info.protocol_version, err))))
    /\ pc' = "returned"
    /\ DropLocals
    /\ UNCHANGED << inp, res, engine_calls, engine_cost, engine_events, panic_at, abort_at, faulted, ex_vars, side_vars >>

\* The caller has taken what the call returned and the thread is free for its
\* next call; `faulted` remembers that a call on it caught a panic.
Resume ==
    /\ pc = "returned"
    /\ pc' = "idle"
    /\ inp' = DefaultInput
    /\ ret' = None
    /\ res' = None
    /\ engine_calls' = 0
    /\ engine_cost' = NoCost
    /\ engine_events' = << >>
    /\ faulted' = (faulted \/ panic_at # "none")
    /\ panic_at' = "none"
    /\ abort_at' = "none"
    /\ UNCHANGED << budget, diagnostic_events, metrics, time_nsecs, ex_vars, side_vars >>

\* A panic raised inside the closure: while the Budget is built, in the
\* engine, while the metrics are read, or while the fee and the effects are
\* computed. The stack unwinds to catch_unwind.
PanicSteps == { "budget", "in_engine", "metrics", "match" }

\* Lines 325-341: the whole of invoke_host_function_or_maybe_panic runs inside
\* the closure given to catch_unwind, so a panic of any of its steps unwinds
\* to it.
InsideCatchUnwind_engine_only(step) == step = "in_engine"

InsideCatchUnwind(step) == step \in PanicSteps

Panic ==
    /\ pc \in PanicSteps
    /\ panic_at' = pc
    /\ pc' = IF InsideCatchUnwind(pc) THEN "unwinding" ELSE "propagated"
    /\ DropLocals
    /\ res' = None
    /\ engine_cost' = NoCost
    /\ engine_events' = << >>
    /\ UNCHANGED << inp, ret, engine_calls, abort_at, faulted, ex_vars, side_vars >>

\* Lines 342-351: catch_unwind returns Err(payload), which becomes a
\* CoreHostError::General.
CatchUnwind ==
    /\ pc = "unwinding"
    /\ \E payload \in PanicPayloads : ret' = Some(Err(PanicError(payload)))
    /\ pc' = "returned"
    /\ UNCHANGED << inp, budget, diagnostic_events, res, time_nsecs, metrics,
                    engine_calls, engine_cost, engine_events, panic_at, abort_at, faulted, ex_vars, side_vars >>

Next ==
    \/ Call
    \/ BudgetBuilt
    \/ BudgetAbort
    \/ NetworkIdAbort
    \/ EngineEnter
    \/ EngineReturn
    \/ ReadMetrics
    \/ MetricsAbort
    \/ ReturnSuccess
    \/ ReturnExtractError
    \/ ReturnFailure
    \/ Panic
    \/ CatchUnwind
    \/ Resume

Spec == Init /\ [][Next]_vars

\* ---------------------------------------- ProtocolSpecificModuleCache

\* The contents of the store that handle h points to.
Store(h) == stores[handle[h].module_cache]

\* Handle h exists and no compile is in progress on it (compile, evict and
\* clear take &mut self).
HandleIdle(h) == handle[h].present /\ frame[h].pc = "ready"

CanStart(h) == HandleIdle(h) /\ hist.ops < MaxOps

\* The record of a step on handle h: the operation, its key and result, the
\* store's contents and the handle's counter before the step, the memory the
\* step's compilation consumed, and whether the operation ran with no step of
\* another handle between its own steps.
Step(op, h, key, new, result, consumed) ==
    [ op |-> op, h |-> h, key |-> key, new |-> new, ret |-> result,
      before |-> Store(h), mem_before |-> handle[h].mem_bytes_consumed,
      consumed |-> consumed,
      alone |-> (frame[h].pc = "parsed" => (last.op = "parse" /\ last.h = h)) ]

\* compile, lines 724-729: a throwaway context is made and the module is
\* parsed and cached, which charges the context's Budget.
CompileParse(h) ==
    /\ CanStart(h)
    /\ CoreCompilationContext_new.ok
    /\ \E wasm \in Wasms, cost \in ModuleCosts :
         LET ctx == Charge(CoreCompilationContext_new.v,
                           [ cpu |-> 0, mem |-> cost, vm_cpu |-> 0, vm_time |-> 0 ])
             r   == parse_and_cache_module_simple(Store(h), wasm)
         IN  /\ frame' = [ frame EXCEPT ![h] = [ pc |-> "parsed", wasm |-> wasm,
                                                 ctx |-> ctx, res |-> r.res ] ]
             /\ stores' = [ stores EXCEPT ![handle[h].module_cache] = r.store ]
             /\ last' = Step("parse", h, ContentHash(wasm), 0, r.res, cost)
             /\ hist' = [ hist EXCEPT
                            !.ops = @ + 1,
                            !.overlapped =
                                @ \/ \E o \in Handles \ {h} : frame[o].pc = "parsed" ]
    /\ UNCHANGED << handle, fn_vars, inv_vars, ex_vars >>

\* compile, lines 730-736: the memory the context's Budget consumed is added
\* to the handle's counter, and the result of the parse is returned.
CompileFinish(h) ==
    /\ handle[h].present
    /\ frame[h].pc = "parsed"
    /\ handle' = [ handle EXCEPT ![h].mem_bytes_consumed =
                                     fetch_add(@, frame[h].ctx.mem_bytes) ]
    /\ frame' = [ frame EXCEPT ![h] = NoFrame ]
    /\ last' = Step("compile", h, ContentHash(frame[h].wasm), 0,
                    CompileReturn(frame[h].res), frame[h].ctx.mem_bytes)
    /\ hist' = [ hist EXCEPT
                    !.consumed[h] = @ + frame[h].ctx.mem_bytes,
                    !.compiled_ok =
                        IF CompileReturn(frame[h].res).ok
                        THEN @ \cup { ContentHash(frame[h].wasm) } ELSE @ ]
    /\ UNCHANGED << stores, fn_vars, inv_vars, ex_vars >>

\* compile, line 733: get_mem_bytes_consumed()? returns the error before
\* fetch_add.
CompileReadAbort(h) ==
    /\ handle[h].present
    /\ frame[h].pc = "parsed"
    /\ frame' = [ frame EXCEPT ![h] = NoFrame ]
    /\ last' = Step("compile", h, ContentHash(frame[h].wasm), 0,
                    Err(BoxHost(BudgetReadError)), frame[h].ctx.mem_bytes)
    /\ hist' = [ hist EXCEPT !.consumed[h] = @ + frame[h].ctx.mem_bytes,
                              !.uncounted[h] = @ + frame[h].ctx.mem_bytes ]
    /\ UNCHANGED << handle, stores, fn_vars, inv_vars, ex_vars >>

\* evict, lines 739-742.
Evict(h) ==
    /\ CanStart(h)
    /\ \E key \in Keys : \E r \in RemoveModuleResults(Store(h), key) :
         /\ stores' = [ stores EXCEPT ![handle[h].module_cache] = @ \ { key } ]
         /\ last' = Step("evict", h, key, 0,
                         IF r.ok THEN Ok("unit") ELSE Err(BoxHost(r.e)), 0)
    /\ hist' = [ hist EXCEPT !.ops = @ + 1, !.removed = TRUE ]
    /\ UNCHANGED << handle, frame, fn_vars, inv_vars, ex_vars >>

\* clear, lines 744-746.
Clear(h) ==
    /\ CanStart(h)
    /\ stores' = [ stores EXCEPT ![handle[h].module_cache] = {} ]
    /\ last' = Step("clear", h, << >>, 0, Ok("unit"), 0)
    /\ hist' = [ hist EXCEPT !.ops = @ + 1, !.removed = TRUE ]
    /\ UNCHANGED << handle, frame, fn_vars, inv_vars, ex_vars >>

\* contains_module, lines 748-753.
ContainsModule(h) ==
    /\ CanStart(h)
    /\ \E key \in Keys :
         last' = Step("contains_module", h, key, 0, ModuleCacheContains(Store(h), key), 0)
    /\ hist' = [ hist EXCEPT !.ops = @ + 1 ]
    /\ UNCHANGED << handle, frame, stores, fn_vars, inv_vars, ex_vars >>

\* get_mem_bytes_consumed, lines 755-759.
GetMemBytesConsumed(h) ==
    /\ CanStart(h)
    /\ last' = Step("get_mem_bytes_consumed", h, << >>, 0,
                    Ok(handle[h].mem_bytes_consumed), 0)
    /\ hist' = [ hist EXCEPT !.ops = @ + 1 ]
    /\ UNCHANGED << handle, frame, stores, fn_vars, inv_vars, ex_vars >>

\* shallow_clone, lines 770-774: the new handle takes the first free index.
ShallowClone(h) ==
    /\ CanStart(h)
    /\ \E n \in Handles :
         /\ ~handle[n].present
         /\ \A m \in Handles : m < n => handle[m].present
         /\ shallow_clone(handle[h], n).ok
         /\ handle' = [ handle EXCEPT ![n] = shallow_clone(handle[h], n).v ]
         /\ last' = Step("shallow_clone", h, << >>, n, Ok("unit"), 0)
         /\ hist' = [ hist EXCEPT !.ops = @ + 1, !.origin[n] = h ]
    /\ UNCHANGED << frame, stores, fn_vars, inv_vars, ex_vars >>

NextCache ==
    \/ \E h \in Handles : CompileParse(h)
    \/ \E h \in Handles : CompileFinish(h)
    \/ \E h \in Handles : CompileReadAbort(h)
    \/ \E h \in Handles : Evict(h)
    \/ \E h \in Handles : Clear(h)
    \/ \E h \in Handles : ContainsModule(h)
    \/ \E h \in Handles : GetMemBytesConsumed(h)
    \/ \E h \in Handles : ShallowClone(h)

SpecCache == Init /\ [][NextCache]_vars

\* ------------------------------- invocations beside a compiling thread

\* The calls made while another thread compiles: one protocol version, one
\* rent configuration, diagnostics off; good and bad cost parameters and
\* network IDs.
FewCallInputs ==
    { i \in CallInputs :
        /\ ~i.enable_diagnostics
        /\ i.ledger_info.protocol_version = ContractInternalErrorProtocol
        /\ i.ledger_info.sequence_number = 1
        /\ i.ledger_info.mem_cost_params = GoodCostParamsBuf
        /\ i.ledger_info.cpu_cost_params # TruncatedCostParamsBuf
        /\ i.rent_fee_configuration.rent_rate = 1 }

\* Lines 310-341, as Call, with one of the few inputs.
CallFew ==
    /\ pc = "idle"
    /\ \E i \in FewCallInputs : inp' = i
    /\ pc' = "budget"
    /\ UNCHANGED << budget, diagnostic_events, res, time_nsecs, metrics, ret,
                    engine_calls, engine_cost, engine_events, panic_at, abort_at, faulted,
                    ex_vars, side_vars >>

\* The engine's results and costs in these calls: a typed error, a success
\* with an extended entry, and a success whose extended entry has a short key
\* hash; nothing consumed, or both limits reached.
FewEngineResults ==
    { r \in EngineResults :
        \/ ~r.ok /\ r.e = HostError("Contract", "InternalError")
        \/ /\ r.ok /\ r.v.encoded_invoke_result.ok
           /\ r.v.encoded_contract_events = << >>
           /\ Len(r.v.ledger_changes) >= 1
           /\ r.v.ledger_changes[1] = WrittenExtended(1) }

FewEngineCosts(b) ==
    { c \in EngineCosts(b) :
        /\ c.vm_cpu = 0 /\ c.vm_time = 0 /\ c.time = 0
        /\ \/ c.cpu = 0 /\ c.mem = 0
           \/ c.cpu = b.cpu_limit /\ c.mem = b.mem_limit }

\* Lines 433-452, as EngineReturn, with one of the few results and costs.
EngineReturnFew ==
    /\ pc = "in_engine"
    /\ \E r \in FewEngineResults, cost \in FewEngineCosts(budget),
          d \in EngineDiagnosticEvents(inp.enable_diagnostics) :
            /\ res' = Some(r)
            /\ engine_cost' = cost
            /\ engine_events' = d
            /\ budget' = Charge(budget, cost)
            /\ diagnostic_events' = diagnostic_events \o d
            /\ time_nsecs' = cost.time
    /\ pc' = "metrics"
    /\ UNCHANGED << inp, metrics, ret, engine_calls, panic_at, abort_at, faulted, ex_vars, side_vars >>

\* compile on the first handle, at most MaxSideCompiles times.
SideCompileParse == hist.ops < MaxSideCompiles /\ CompileParse(1)

\* One thread calls invoke_host_function again and again while another
\* compiles modules through the first handle.
NextBudgets ==
    \/ CallFew
    \/ BudgetBuilt
    \/ BudgetAbort
    \/ NetworkIdAbort
    \/ EngineEnter
    \/ EngineReturnFew
    \/ ReadMetrics
    \/ MetricsAbort
    \/ ReturnSuccess
    \/ ReturnExtractError
    \/ ReturnFailure
    \/ Panic
    \/ CatchUnwind
    \/ Resume
    \/ SideCompileParse
    \/ CompileFinish(1)
    \/ CompileReadAbort(1)

SpecBudgets == Init /\ [][NextBudgets]_vars

\* ------------------- contract_code_memory_size_for_rent beside a call

\* Another thread computes the memory size of a contract code entry, at any
\* point of the invoking thread's call.
ContractCodeMemorySize ==
    /\ \E e \in CodeEntryBufs, c \in CostParamBufs, m \in CostParamBufs :
         /\ fn_call' = [ fn |-> "contract_code_memory_size_for_rent",
                         contract_code_entry_xdr |-> e,
                         cpu_cost_params |-> c, mem_cost_params |-> m ]
         /\ fn_result' = Some(contract_code_memory_size_for_rent(e, c, m))
    /\ UNCHANGED << inv_vars, ex_vars, cache_vars >>

NextMemorySize ==
    \/ CallFew
    \/ BudgetBuilt
    \/ BudgetAbort
    \/ NetworkIdAbort
    \/ EngineEnter
    \/ EngineReturnFew
    \/ ReadMetrics
    \/ MetricsAbort
    \/ ReturnSuccess
    \/ ReturnExtractError
    \/ ReturnFailure
    \/ Panic
    \/ CatchUnwind
    \/ Resume
    \/ ContractCodeMemorySize

SpecMemorySize == Init /\ [][NextMemorySize]_vars

\* ------------------------------------------------ the pure functions

\* One call of one of the pure functions, with arguments of any value.
PureCalls ==
    [ fn : { "can_parse_transaction" }, xdr : XdrBufs, depth_limit : 0 .. MaxDepth ]
    \cup [ fn : { "compute_transaction_resource_fee" },
           tx_resources : CxxTransactionResources, fee_config : CxxFeeConfigurations ]
    \cup [ fn : { "compute_rent_fee" }, changed_entries : CxxRentChangeLists,
           fee_config : CxxRentFeeConfigurations, current_ledger_seq : 1 .. MaxTtl ]

InitPure ==
    /\ InvokeIdle
    /\ ExtractIdle
    /\ CacheIdle
    /\ fn_call \in PureCalls
    /\ fn_result = None

CanParseTransaction ==
    /\ fn_call.fn = "can_parse_transaction"
    /\ fn_result = None
    /\ fn_result' = Some(can_parse_transaction(fn_call.xdr, fn_call.depth_limit))
    /\ UNCHANGED << fn_call, inv_vars, ex_vars, cache_vars >>

ComputeTransactionResourceFee ==
    /\ fn_call.fn = "compute_transaction_resource_fee"
    /\ fn_result = None
    /\ fn_result' = Some(compute_transaction_resource_fee(fn_call.tx_resources,
                                                          fn_call.fee_config))
    /\ UNCHANGED << fn_call, inv_vars, ex_vars, cache_vars >>

ComputeRentFee ==
    /\ fn_call.fn = "compute_rent_fee"
    /\ fn_result = None
    /\ fn_result' = Some(compute_rent_fee(fn_call.changed_entries, fn_call.fee_config,
                                          fn_call.current_ledger_seq))
    /\ UNCHANGED << fn_call, inv_vars, ex_vars, cache_vars >>

NextPure ==
    \/ CanParseTransaction
    \/ ComputeTransactionResourceFee
    \/ ComputeRentFee

SpecPure == InitPure /\ [][NextPure]_vars

\* -------------------- extract_ledger_effects, alone and inside a call

\* Either extract_ledger_effects is applied to a list of entry changes, or
\* the thread makes calls of invoke_host_function.
InitEffects ==
    /\ InvokeIdle
    /\ SideIdle
    /\ \/ ExtractIdle
       \/ /\ ex_pc = "input"
          /\ \E n \in 0 .. MaxChanges : ex_changes \in ChangeListsOfLen(n)
          /\ ex_result = Ok(<< >>)

NextEffects ==
    \/ ex_pc = "off" /\ Next
    \/ ExtractCall

SpecEffects == InitEffects /\ [][NextEffects]_vars

\* ====================================================== the properties

\* The output of a returned call (only where the call returned one).
Returned == pc = "returned" /\ ret # None

Output == ret[1].v

EngineFailed == res # None /\ ~ResultIsSuccess(res[1])

EngineSucceeded == res # None /\ ResultIsSuccess(res[1])

\* An output of the failure shape whose metrics are what the engine charged
\* to the call's Budget.
FailureShape(out) ==
    /\ out.success = FALSE
    /\ out.result_value = << >>
    /\ out.modified_ledger_entries = << >>
    /\ out.contract_events = << >>
    /\ out.rent_fee = 0
    /\ out.cpu_insns = engine_cost.cpu
    /\ out.mem_bytes = engine_cost.mem

C2_InternalErrorClassification ==
    (Returned /\ ret[1].ok /\ Output.success = FALSE /\ EngineFailed)
        => LET e == ResultError(res[1])
               v == inp.ledger_info.protocol_version
           IN  /\ v < 22  => (Output.is_internal_error <=> e.code = "InternalError")
               /\ v >= 22 => (Output.is_internal_error <=>
                                 (e.code = "InternalError" /\ e.type # "Contract"))

\* Version 21, (Contract, InternalError): internal.
C2_Witness ==
    /\ Returned /\ ret[1].ok /\ EngineFailed
    /\ inp.ledger_info.protocol_version = 21
    /\ ResultError(res[1]) = HostError("Contract", "InternalError")
    /\ Output.is_internal_error = TRUE

\* C3: a panic raised at any step of the guarded invocation never propagates
\* out of invoke_host_function: the thread is unwinding to the barrier or has
\* returned, and a returned call has handed the caller a value.
C3_NoPanicEscapes ==
    /\ pc # "propagated"
    /\ panic_at # "none" => pc \in {"unwinding", "returned"}
    /\ pc = "returned" => ret # None

\* A panic with a payload that is neither a String nor a &str, raised while the
\* metrics were read, was returned as a value.
C3_Witness ==
    /\ Returned
    /\ panic_at = "metrics"
    /\ ~ret[1].ok
    /\ ret[1].e.kind = "General"
    /\ ret[1].e.msg = << "contract host panicked" >>

WellBehavedCall ==
    /\ ConstructBudget(inp).ok
    /\ LedgerInfoTryFrom(inp.ledger_info).ok
    /\ EngineSucceeded
    /\ extract_ledger_effects(res[1].v.ledger_changes).ok
    /\ abort_at # "metrics"
    /\ panic_at = "none"

\* C5: after a call that caught a panic the thread is usable: nothing of that
\* call (Budget, diagnostic accumulator) is left when the next call starts,
\* and a later well-behaved call returns success=true with the metrics of its
\* own consumption only.
C5_ThreadReusableAfterPanic ==
    /\ (faulted /\ pc \in {"idle", "budget"})
           => (budget.live = FALSE /\ diagnostic_events = << >>)
    /\ (faulted /\ pc = "returned" /\ WellBehavedCall)
           => /\ ret # None /\ ret[1].ok
              /\ Output.success = TRUE
              /\ Output.cpu_insns = engine_cost.cpu
              /\ Output.mem_bytes = engine_cost.mem
              /\ Output.time_nsecs = engine_cost.time

C5_Witness ==
    /\ faulted
    /\ Returned
    /\ WellBehavedCall
    /\ engine_cost.cpu > 0
    /\ ret[1].ok
    /\ Output.success = TRUE

\* An output of the success shape for the engine's result r and the call's
\* inputs i.
SuccessShape(out, r, i) ==
    /\ out.success = TRUE
    /\ out.is_internal_error = FALSE
    /\ out.result_value = r.encoded_invoke_result.v
    /\ out.rent_fee = host_compute_rent_fee(extract_rent_changes(r.ledger_changes),
                                            i.rent_fee_configuration,
                                            i.ledger_info.sequence_number)
    /\ extract_ledger_effects(r.ledger_changes).ok
    /\ out.modified_ledger_entries = extract_ledger_effects(r.ledger_changes).v
    /\ out.contract_events = r.encoded_contract_events
    /\ out.cpu_insns = engine_cost.cpu
    /\ out.mem_bytes = engine_cost.mem

ConfigurationInvalid ==
    \/ ~ConstructBudget(inp).ok
    \/ Len(inp.ledger_info.network_id) # 32

\* C7: with an invalid configuration the engine is never invoked in the call,
\* and the call returns an error and no InvocationOutput.
C7_ConfigFailureAborts ==
    ConfigurationInvalid
        => /\ engine_calls = 0
           /\ pc \notin {"in_engine", "metrics", "match"}
           /\ res = None
           /\ pc = "returned" => (ret # None /\ ~ret[1].ok)

\* The Budget was built and the network ID has the wrong size: the call
\* returned that error without entering the engine.
C7_Witness ==
    /\ Returned
    /\ ConstructBudget(inp).ok
    /\ Len(inp.ledger_info.network_id) # 32
    /\ abort_at = "network_id"
    /\ ~ret[1].ok
    /\ ret[1].e.kind = "General"
    /\ engine_calls = 0

\* ---------------------------------- properties of extract_ledger_effects

Extracted == ex_pc = "done"

StrictIncrease(c) ==
    /\ c.ttl_change # None
    /\ c.ttl_change[1].new_live_until_ledger > c.ttl_change[1].old_live_until_ledger

\* The positions of the effect list that hold a TTL record for key hash h.
TtlRecordsFor(out, h) ==
    { k \in 1..Len(out) : IsTtlRecord(out[k]) /\ TtlRecordKeyHash(out[k]) = h }

\* Entry c has exactly one TTL record in `out`, with c's key hash, its new
\* expiration and last-modified sequence 0.
OneTtlRecord(out, c) ==
    /\ Cardinality(TtlRecordsFor(out, c.ttl_change[1].key_hash)) = 1
    /\ \A k \in TtlRecordsFor(out, c.ttl_change[1].key_hash) :
          /\ TtlRecordLiveUntil(out[k]) = c.ttl_change[1].new_live_until_ledger
          /\ TtlRecordLastModified(out[k]) = 0

\* C8 as stated: for every change list, each entry whose TTL strictly
\* increased contributes exactly one TTL record with its key hash, its new
\* expiration and last-modified sequence 0.
C8_Original ==
    Extracted
        => \A i \in 1..Len(ex_changes) :
               StrictIncrease(ex_changes[i])
                   => (ex_result.ok /\ OneTtlRecord(ex_result.v, ex_changes[i]))

\* C8, amended: the same, for every change list on which the extraction
\* succeeds (every entry with a strict TTL increase has a 32-byte key hash).
C8_TtlRecordPerIncrease ==
    (Extracted /\ ex_result.ok)
        => \A i \in 1..Len(ex_changes) :
               StrictIncrease(ex_changes[i]) => OneTtlRecord(ex_result.v, ex_changes[i])

\* A read-only entry without a new value whose TTL grew: its TTL record is
\* the whole list.
C8_Witness ==
    /\ Extracted /\ ex_result.ok
    /\ Len(ex_changes) = 1
    /\ ex_changes[1].read_only
    /\ ex_changes[1].encoded_new_value = None
    /\ StrictIncrease(ex_changes[1])
    /\ Len(ex_result.v) = 1
    /\ IsTtlRecord(ex_result.v[1])

\* C9: every TTL record of the effect list comes from an entry whose TTL
\* strictly increased, every value record from an entry that is not read-only;
\* and a list of read-only entries without a TTL increase yields the empty
\* effect list.
C9_NoRecordWithoutCause ==
    /\ (Extracted /\ ex_result.ok)
           => \A k \in 1..Len(ex_result.v) :
                  IF IsTtlRecord(ex_result.v[k])
                  THEN \E i \in 1..Len(ex_changes) :
                          /\ StrictIncrease(ex_changes[i])
                          /\ ex_changes[i].ttl_change[1].key_hash = TtlRecordKeyHash(ex_result.v[k])
                  ELSE \E i \in 1..Len(ex_changes) :
                          /\ ~ex_changes[i].read_only
                          /\ ex_changes[i].encoded_new_value = Some(ex_result.v[k])
    /\ (Extracted /\ \A i \in 1..Len(ex_changes) :
                        ex_changes[i].read_only /\ ~StrictIncrease(ex_changes[i]))
           => ex_result = Ok(<< >>)

\* Two read-only entries that carry new values, one with an unchanged TTL and
\* one with a decreased TTL under a key hash of the wrong length: nothing.
C9_Witness ==
    /\ Extracted
    /\ Len(ex_changes) = 2
    /\ \A i \in 1..2 : ex_changes[i].read_only /\ ex_changes[i].encoded_new_value # None
    /\ ex_changes[1].ttl_change # None
    /\ ex_changes[1].ttl_change[1].new_live_until_ledger
           = ex_changes[1].ttl_change[1].old_live_until_ledger
    /\ ex_changes[2].ttl_change # None
    /\ ex_changes[2].ttl_change[1].new_live_until_ledger
           < ex_changes[2].ttl_change[1].old_live_until_ledger
    /\ Len(ex_changes[2].ttl_change[1].key_hash) # 32
    /\ ex_result = Ok(<< >>)

\* What each record of an effect list is and which entry it is for: the i-th
\* entry's value carries i as its payload and its key hash is made of i.
RecordTag(buf) == << (IF IsTtlRecord(buf) THEN "ttl" ELSE "value"), buf[3] >>

RECURSIVE RecordTags(_)
RecordTags(out) ==
    IF out = << >> THEN << >> ELSE << RecordTag(Head(out)) >> \o RecordTags(Tail(out))

WritesValue(c) == ~c.read_only /\ c.encoded_new_value # None

\* The tags the claim asks for, entries i..Len(changes): per entry in input
\* order, its value record if it is written, then its TTL record if its TTL
\* strictly increased.
RECURSIVE ExpectedTags(_, _)
ExpectedTags(changes, i) ==
    IF i > Len(changes)
    THEN << >>
    ELSE (IF WritesValue(changes[i]) THEN << << "value", i >> >> ELSE << >>)
         \o (IF StrictIncrease(changes[i]) THEN << << "ttl", i >> >> ELSE << >>)
         \o ExpectedTags(changes, i + 1)

\* C10: a produced effect list holds, in input order, each written entry's new
\* value directly followed by the entry's TTL record if its TTL strictly
\* increased, and nothing else; its length is the number of written entries
\* plus the number of entries with a strict TTL increase.
C10_MinimalOrdered ==
    (Extracted /\ ex_result.ok)
        => /\ RecordTags(ex_result.v) = ExpectedTags(ex_changes, 1)
           /\ \A k \in 1..Len(ex_result.v) :
                  ~IsTtlRecord(ex_result.v[k])
                      => ex_changes[ex_result.v[k][3]].encoded_new_value = Some(ex_result.v[k])
           /\ Len(ex_result.v) =
                  Cardinality({ i \in 1..Len(ex_changes) : WritesValue(ex_changes[i]) })
                  + Cardinality({ i \in 1..Len(ex_changes) : StrictIncrease(ex_changes[i]) })

\* A written entry whose TTL grew, then an entry that is not read-only, has no
\* new value and whose TTL grew: value, TTL record, TTL record.
C10_Witness ==
    /\ Extracted /\ ex_result.ok
    /\ Len(ex_changes) = 2
    /\ WritesValue(ex_changes[1]) /\ StrictIncrease(ex_changes[1])
    /\ ~ex_changes[2].read_only
    /\ ex_changes[2].encoded_new_value = None
    /\ StrictIncrease(ex_changes[2])
    /\ RecordTags(ex_result.v) = << << "value", 1 >>, << "ttl", 1 >>, << "ttl", 2 >> >>

\* ------------------------------------------------ module cache: claims

\* contains_module(key) asked through handle g.
Contains(g, key) == ModuleCacheContains(Store(g), key).v

\* The handles that point to the store of handle h.
Sharing(h) ==
    { g \in Handles : handle[g].present /\ handle[g].module_cache = handle[h].module_cache }

\* C11: in a sequence of operations on handles that share one store, directly
\* after a compile that returned Ok the module's hash is contained; directly
\* after evict(key) the key is not contained; directly after clear() no key
\* that was present before is contained; and contains_module answers for the
\* store as it was and leaves it as it was.
C11_CacheMembership ==
    /\ (last.op = "compile" /\ last.ret.ok /\ last.alone)
           => \A g \in Sharing(last.h) : Contains(g, last.key)
    /\ last.op = "evict"
           => \A g \in Sharing(last.h) : ~Contains(g, last.key)
    /\ last.op = "clear"
           => \A g \in Sharing(last.h) : \A k \in last.before : ~Contains(g, k)
    /\ last.op = "contains_module"
           => /\ Store(last.h) = last.before
              /\ last.ret = Ok(last.key \in last.before)

\* A clear, through a clone, of a store that held a compiled module.
C11_Witness ==
    /\ last.op = "clear"
    /\ last.h # 1
    /\ last.before # {}
    /\ hist.compiled_ok # {}

\* C12 as stated (for the compiles that reach fetch_add): no operation on a
\* handle makes its counter smaller, a compile adds the memory its compilation
\* consumed, and every other operation leaves the counter as it was.
C12_Original ==
    last.h # 0 =>
        /\ handle[last.h].mem_bytes_consumed >= last.mem_before
        /\ (last.op = "compile" /\ last.ret # Err(BoxHost(BudgetReadError)))
               => handle[last.h].mem_bytes_consumed = last.mem_before + last.consumed
        /\ last.op \in { "parse", "evict", "clear", "contains_module",
                         "get_mem_bytes_consumed", "shallow_clone" }
               => handle[last.h].mem_bytes_consumed = last.mem_before

\* C13: a shallow clone and its origin give the same answer to contains_module
\* for every key, at every later point.
C13_SharedStore ==
    \A n \in Handles :
        (handle[n].present /\ hist.origin[n] # 0)
            => \A k \in Keys :
                   ModuleCacheContains(Store(n), k)
                       = ModuleCacheContains(Store(hist.origin[n]), k)

\* A module compiled through the clone is contained through the origin.
C13_Witness ==
    /\ last.op = "compile"
    /\ last.ret.ok
    /\ hist.origin[last.h] # 0
    /\ Contains(hist.origin[last.h], last.key)

C15_ConcurrentCompiles ==
    ~hist.removed
        => \A k \in hist.compiled_ok : \A g \in Handles :
               handle[g].present => Contains(g, k)

\* Two clones compiled two different modules, one compile overlapping the
\* other, and both returned Ok.
C15_Witness ==
    /\ handle[3].present
    /\ hist.origin[2] = 1 /\ hist.origin[3] = 1
    /\ hist.overlapped
    /\ ~hist.removed
    /\ hist.compiled_ok = Keys
    /\ hist.consumed[1] = 0 /\ hist.consumed[2] > 0 /\ hist.consumed[3] > 0
    /\ \A h \in Handles : frame[h].pc = "ready"

\* ------------------------------------------------------ budgets: claims

\* C16: every call builds its own Budget, with nothing consumed, and drops it
\* when it ends, so the metrics a call reports are what the engine charged in
\* that call; every compile builds its own context, with nothing consumed,
\* and drops it when it ends, so what it adds to the handle's counter is what
\* that compilation consumed; whatever the other thread does meanwhile.
C16_FreshBudgetPerCall ==
    /\ pc \in { "idle", "budget", "unwinding", "returned" } => budget = NoBudget
    /\ pc \in { "invoke", "in_engine" }
           => budget.live /\ budget.cpu_insns = 0 /\ budget.mem_bytes = 0
    /\ pc \in { "metrics", "match" }
           => budget.cpu_insns = engine_cost.cpu /\ budget.mem_bytes = engine_cost.mem
    /\ (Returned /\ ret[1].ok)
           => Output.cpu_insns = engine_cost.cpu /\ Output.mem_bytes = engine_cost.mem
    /\ \A h \in Handles :
           /\ frame[h].pc = "ready" => frame[h].ctx = NoBudget
           /\ (frame[h].pc = "parsed" /\ last.op = "parse" /\ last.h = h)
                  => /\ frame[h].ctx.live
                     /\ frame[h].ctx.cpu_insns = 0
                     /\ frame[h].ctx.mem_bytes = last.consumed
    /\ (last.op = "compile" /\ last.ret # Err(BoxHost(BudgetReadError)))
           => handle[last.h].mem_bytes_consumed
                  = fetch_add(last.mem_before, last.consumed)

\* A second call on a thread, which returned success with its own consumption,
\* while the other thread finished its second compile.
C16_Witness ==
    /\ faulted
    /\ Returned /\ ret[1].ok /\ Output.success
    /\ Output.cpu_insns > 0 /\ Output.mem_bytes > 0
    /\ last.op = "compile"
    /\ hist.ops = 2
    /\ last.mem_before > 0

\* C17 as stated: the Budget the computation builds is unlimited in CPU
\* instructions and in memory bytes.
C17_Original ==
    (fn_call.fn = "contract_code_memory_size_for_rent" /\ fn_result[1].budget # None)
        => /\ fn_result[1].budget[1].cpu_limit = U64_MAX
           /\ fn_result[1].budget[1].mem_limit = U64_MAX

\* The Budget of the call in flight is neither read nor changed by a step of
\* contract_code_memory_size_for_rent.
MemorySizeLeavesCallAlone ==
    fn_vars' # fn_vars => UNCHANGED inv_vars

\* C17, amended: the Budget the computation builds has both limits 0, is built
\* for this computation from the tables it was given and has nothing charged
\* to it; the Budget of a call in flight is not used and not changed.
C17_DedicatedBudget ==
    /\ [](fn_call.fn = "contract_code_memory_size_for_rent" =>
            /\ fn_result[1] = contract_code_memory_size_for_rent(
                                  fn_call.contract_code_entry_xdr,
                                  fn_call.cpu_cost_params, fn_call.mem_cost_params)
            /\ fn_result[1].budget # None =>
                  /\ fn_result[1].budget[1].live
                  /\ fn_result[1].budget[1].cpu_limit = 0
                  /\ fn_result[1].budget[1].mem_limit = 0
                  /\ fn_result[1].budget[1].cpu_insns = 0
                  /\ fn_result[1].budget[1].mem_bytes = 0)
    /\ [][MemorySizeLeavesCallAlone]_vars

\* The size was computed while a call was in the engine with its own Budget.
C17_Witness ==
    /\ fn_call.fn = "contract_code_memory_size_for_rent"
    /\ fn_result[1].ret.ok
    /\ fn_result[1].budget # None
    /\ pc = "metrics"
    /\ budget.live /\ budget.mem_bytes > 0

\* --------------------------------------------- pure functions: claims

IsPrefix(p, q) == Len(p) <= Len(q) /\ SubSeq(q, 1, Len(p)) = p

\* C18: can_parse_transaction returns a boolean for every buffer and every
\* depth limit, true exactly when the buffer starts with the encoding of a
\* transaction envelope that is no deeper than the depth limit; a malformed,
\* over-deep or truncated buffer gives false.
C18_CanParseExactly ==
    (fn_call.fn = "can_parse_transaction" /\ fn_result # None)
        => /\ fn_result[1] \in BOOLEAN
           /\ fn_result[1] <=>
                 \E env \in Envelopes :
                     /\ IsPrefix(WriteTransactionEnvelope(env), fn_call.xdr)
                     /\ EnvelopeDepth(env) <= fn_call.depth_limit

\* A fee bump with one operation, parsed at exactly the depth it needs.
C18_Witness ==
    /\ fn_call.fn = "can_parse_transaction"
    /\ fn_call.xdr = << 5, 0, 2, 1, 0 >>
    /\ fn_call.depth_limit = 6
    /\ fn_result = Some(TRUE)

NonNegativeFields(r) == \A f \in DOMAIN r : r[f] >= 0

\* C19: for resources and a fee configuration whose fields are all
\* non-negative, both fees of compute_transaction_resource_fee are >= 0.
C19_NonNegativeFees ==
    ( /\ fn_call.fn = "compute_transaction_resource_fee"
      /\ fn_result # None
      /\ NonNegativeFields(fn_call.tx_resources)
      /\ NonNegativeFields(fn_call.fee_config) )
        => /\ fn_result[1].non_refundable_fee >= 0
           /\ fn_result[1].refundable_fee >= 0

\* Both fees saturated or were rounded up from a product that saturated.
C19_Witness ==
    /\ fn_call.fn = "compute_transaction_resource_fee"
    /\ NonNegativeFields(fn_call.tx_resources)
    /\ fn_call.tx_resources.instructions > 1
    /\ fn_call.tx_resources.write_entries > 1
    /\ fn_call.tx_resources.contract_events_size_bytes > 1
    /\ fn_call.fee_config.fee_per_instruction_increment = I64_MAX
    /\ fn_call.fee_config.fee_per_write_entry = I64_MAX
    /\ fn_call.fee_config.fee_per_contract_event_1kb = I64_MAX
    /\ fn_result # None
    /\ fn_result[1].non_refundable_fee = I64_MAX
    /\ fn_result[1].refundable_fee > 0

\* A rent change e2 extends at least as far and is at least as large as e1.
Dominates(e2, e1) ==
    /\ e2.old_live_until_ledger <= e1.old_live_until_ledger
    /\ e2.new_live_until_ledger >= e1.new_live_until_ledger
    /\ e2.new_size_bytes >= e1.new_size_bytes

\* The rent fee of the call is >= 0 and no larger than the rent fee of the
\* same call with one rent change replaced by one that dominates it.
RentFeeMonotone ==
    /\ fn_result[1] >= 0
    /\ \A k \in 1 .. Len(fn_call.changed_entries) :
         \A e \in CxxLedgerEntryRentChanges :
            Dominates(e, fn_call.changed_entries[k])
               => compute_rent_fee([ fn_call.changed_entries EXCEPT ![k] = e ],
                                   fn_call.fee_config, fn_call.current_ledger_seq)
                    >= fn_result[1]

MinusOrZero(a, b) == IF b > a THEN 0 ELSE a - b

\* C21: in every output, cpu_insns_excluding_vm_instantiation is cpu_insns
\* minus the CPU tracked for VM instantiation, and
\* time_nsecs_excluding_vm_instantiation is time_nsecs minus the time tracked
\* for it, both stopping at 0: neither exceeds its total nor wraps around,
\* also when the tracked part is larger than the total.
C21_ExcludingVmInstantiation ==
    (Returned /\ ret[1].ok)
        => /\ Output.cpu_insns_excluding_vm_instantiation
                 = MinusOrZero(Output.cpu_insns, engine_cost.vm_cpu)
           /\ Output.time_nsecs_excluding_vm_instantiation
                 = MinusOrZero(Output.time_nsecs, engine_cost.vm_time)
           /\ Output.time_nsecs = engine_cost.time
           /\ Output.cpu_insns_excluding_vm_instantiation \in 0 .. Output.cpu_insns
           /\ Output.time_nsecs_excluding_vm_instantiation \in 0 .. Output.time_nsecs

\* The time tracked for VM instantiation exceeds the measured time, and the
\* CPU tracked for it is less than the CPU consumed.
C21_Witness ==
    /\ Returned /\ ret[1].ok
    /\ engine_cost.vm_time > Output.time_nsecs
    /\ Output.time_nsecs > 0
    /\ Output.time_nsecs_excluding_vm_instantiation = 0
    /\ engine_cost.vm_cpu < Output.cpu_insns
    /\ Output.cpu_insns_excluding_vm_instantiation > 0

\* The call returns an output in this step.
ReturnsOutput == pc = "match" /\ pc' = "returned" /\ ret' # None /\ ret'[1].ok

\* The encoding of the event that reports the failure `err`: not in a
\* successful contract call, no contract id, the two topics host_fn_failed
\* and the error, no data.
FailedEventBuf(err) ==
    << 0, 0, 2, 15, 2, 2 >> \o ScErrorWords(err) \o << 4 >>

\* C22: on a failed invocation with diagnostics enabled the output's events
\* are the events the engine collected followed by exactly one more, which
\* carries the topic host_fn_failed and the failure's error; with
\* diagnostics disabled, and on every successful invocation, the output's
\* events are the collected ones and nothing else.
C22_FailureEvent ==
    [][ ReturnsOutput =>
          LET out       == ret'[1].v
              collected == encode_diagnostic_events(diagnostic_events)
          IN  IF ~out.success /\ inp.enable_diagnostics
              THEN out.diagnostic_events
                     = Append(collected, FailedEventBuf(ResultError(res[1])))
              ELSE out.diagnostic_events = collected ]_vars

\* A failure reported after the engine had collected two events, one of
\* which does not encode.
C22_Witness ==
    /\ Returned /\ ret[1].ok
    /\ ~Output.success
    /\ inp.enable_diagnostics
    /\ Len(Output.diagnostic_events) = 2
    /\ Output.diagnostic_events[1] = << 1, 1, 1, 15, 1, 4 >>
    /\ Output.diagnostic_events[2] = FailedEventBuf(HostError("Contract", "ExceededLimit"))

EncodesOk(e) == EncodeDiagnosticEvent(e).ok

\* The events of `events` that encode, in their order, encoded.
EncodedInOrder(events) ==
    LET kept == SelectSeq(events, EncodesOk)
    IN  [ i \in 1 .. Len(kept) |-> EncodeDiagnosticEvent(kept[i]).v ]

\* C23: an event that does not encode is dropped and the call goes on. The
\* output's events are the collected events that encode, in their order (then
\* the event of C22, if any), never more than were collected; the call
\* returns an output unless the extraction of the effects fails; and the
\* success flag, the classification, the metrics, the effects and the fee
\* are what the engine's result, its charges and the arguments determine,
\* whether or not an event was dropped.
C23_FailedEncodingDropped ==
    (pc = "returned" /\ res # None /\ panic_at = "none" /\ abort_at \in { "none", "effects" })
        => LET r       == res[1]
               kept    == EncodedInOrder(engine_events)
               pushed  == IF ~ResultIsSuccess(r) /\ inp.enable_diagnostics THEN 1 ELSE 0
               effects == extract_ledger_effects(r.v.ledger_changes)
           IN  /\ ret # None
               /\ ret[1].ok <=> (ResultIsSuccess(r) => effects.ok)
               /\ ret[1].ok =>
                    /\ SubSeq(Output.diagnostic_events, 1, Len(kept)) = kept
                    /\ Len(Output.diagnostic_events) = Len(kept) + pushed
                    /\ Len(Output.diagnostic_events) <= Len(engine_events) + pushed
                    /\ Output.success = ResultIsSuccess(r)
                    /\ Output.is_internal_error
                          = ( /\ ~ResultIsSuccess(r)
                              /\ IsInternalError(inp.ledger_info.protocol_version,
                                                 ResultError(r)) )
                    /\ Output.cpu_insns = engine_cost.cpu
                    /\ Output.mem_bytes = engine_cost.mem
                    /\ Output.time_nsecs = engine_cost.time
                    /\ Output.modified_ledger_entries
                          = (IF ResultIsSuccess(r) THEN effects.v ELSE << >>)
                    /\ Output.rent_fee
                          = (IF ResultIsSuccess(r) THEN RentFeeOf(r.v.ledger_changes, inp) ELSE 0)

\* A successful call whose first collected event did not encode: the output
\* holds the second one only.
C23_Witness ==
    /\ Returned /\ ret[1].ok
    /\ Output.success
    /\ Len(engine_events) = 2
    /\ ~EncodesOk(engine_events[1])
    /\ Output.diagnostic_events = << EncodeDiagnosticEvent(engine_events[2]).v >>
    /\ Output.modified_ledger_entries # << >>
    /\ Output.rent_fee > 0

\* An entry of `changes` whose TTL strictly increased under a key hash that
\* is not 32 bytes long.
BadHashIncrease(changes) ==
    \E k \in 1 .. Len(changes) :
        /\ changes[k].ttl_change # None
        /\ changes[k].ttl_change[1].new_live_until_ledger
              > changes[k].ttl_change[1].old_live_until_ledger
        /\ Len(changes[k].ttl_change[1].key_hash) # HashLen

\* C24: extract_ledger_effects fails, with (Value, InternalError) and no
\* list, exactly when an entry with a strict TTL increase has a key hash
\* that is not 32 bytes long: the hash of an entry whose TTL did not
\* increase is not looked at. Inside invoke_host_function, such an entry in
\* the changes of a successful engine result makes the call return an error
\* and no output.
C24_BadKeyHashAborts ==
    /\ ex_pc = "done" =>
          IF BadHashIncrease(ex_changes)
          THEN ex_result = Err(HostError("Value", "InternalError"))
          ELSE ex_result.ok
    /\ (pc = "returned" /\ EngineSucceeded /\ BadHashIncrease(res[1].v.ledger_changes))
          => /\ ret # None
             /\ ~ret[1].ok
             /\ abort_at = "effects" => ret[1].e = BoxHost(HostError("Value", "InternalError"))
             /\ (panic_at = "none" /\ abort_at # "metrics") => abort_at = "effects"

\* A successful engine result whose second entry has the short hash, after a
\* first entry that had yielded two records: the call returned the error.
C24_Witness ==
    /\ pc = "returned" /\ EngineSucceeded
    /\ abort_at = "effects"
    /\ Len(res[1].v.ledger_changes) = 2
    /\ ~BadHashIncrease(<< res[1].v.ledger_changes[1] >>)
    /\ Len(extract_ledger_effects(<< res[1].v.ledger_changes[1] >>).v) = 2
    /\ BadHashIncrease(res[1].v.ledger_changes)
    /\ ~ret[1].ok

\* ------------------------------------------ module cache: a failed compile

\* The last step was the return of a compile whose parse or caching failed.
FailedCompileReturned ==
    /\ last.op = "compile"
    /\ ~last.ret.ok
    /\ last.ret # Err(BoxHost(BudgetReadError))

\* C25: a compile that returns the error of the parse has increased the
\* handle's counter by the memory its context consumed.
C25_Original ==
    FailedCompileReturned
        => handle[last.h].mem_bytes_consumed = last.mem_before + last.consumed

\* What holds instead: the counter is the sum modulo 2^64, so a failed
\* compile is counted, and a counter close to u64::MAX wraps around.
FailedCompileCountedModulo ==
    FailedCompileReturned
        => handle[last.h].mem_bytes_consumed
              = (last.mem_before + last.consumed) % (U64_MAX + 1)

\* A failed compile that raised a counter that was not 0.
FailedCompileCountedReached ==
    /\ FailedCompileReturned
    /\ last.mem_before > 0
    /\ last.consumed > 0
    /\ handle[last.h].mem_bytes_consumed > last.mem_before

====
